---- MODULE Spec2Model ----
(***************************************************************************)
(* A model of dissect.xfs (src/dissect/xfs/xfs.py): path resolution with   *)
(* symlink dereference, the symlink properties, the run-list builder, the  *)
(* inode-number split/compose and the shortform directory enumeration.     *)
(*                                                                         *)
(* Strings are sequences of one-character strings, so that split("/") and  *)
(* startswith() are computed rather than assumed.                          *)
(***************************************************************************)
EXTENDS Integers, Sequences, FiniteSets, TLC

VARIABLES
    image,            \* the XFS image the filesystem object was opened on
    call,             \* the caller's current (or last) call into the library
    stack,            \* the frames of XFS.get / INode.link_inode, innermost last
    result,           \* what the call returned or raised
    link_inode_memo,  \* INode._link_inode of the cached INode objects
    runlist,          \* INode._runlist of the inode whose runs are built
    dirlist,          \* INode._dirlist of the directory that is enumerated
    ag                \* XFS.ag: the allocation groups constructed so far

\* what XFS.get / INode.link / INode.link_inode leave alone
notpath == <<runlist, dirlist, ag>>

vars == <<image, call, stack, result, link_inode_memo, runlist, dirlist, ag>>

(***************************************************************************)
(* Constants of the on-disk format and of the stat module.                 *)
(***************************************************************************)
S_IFIFO == 4096
S_IFCHR == 8192
S_IFDIR == 16384
S_IFBLK == 24576
S_IFREG == 32768
S_IFLNK == 40960
S_IFSOCK == 49152

XFS_DINODE_FMT_DEV == 0
XFS_DINODE_FMT_LOCAL == 1
XFS_DINODE_FMT_EXTENTS == 2
XFS_DINODE_FMT_BTREE == 3
XFS_DINODE_FMT_UUID == 4

XFS_SYMLINK_MAGIC == 1481853005

\* stat.S_IFMT(mode): mode & 0o170000, on the 16-bit di_mode
S_IFMT(mode) == (mode \div 4096) * 4096

\* c_xfs.FILETYPES: the directory entry's file-type byte -> S_IF* (0 stands for None)
FILETYPES == [b \in 0..7 |->
    CASE b = 0 -> 0
      [] b = 1 -> S_IFREG
      [] b = 2 -> S_IFDIR
      [] b = 3 -> S_IFCHR
      [] b = 4 -> S_IFBLK
      [] b = 5 -> S_IFIFO
      [] b = 6 -> S_IFSOCK
      [] b = 7 -> S_IFLNK]

(***************************************************************************)
(* Strings.                                                                *)
(***************************************************************************)
RECURSIVE Split(_)
\* str.split("/"): "" -> [""], "a//b" -> ["a", "", "b"]
Split(s) ==
    IF s = <<>> THEN << <<>> >>
    ELSE LET r == Split(Tail(s))
         IN IF Head(s) = "/" THEN << <<>> >> \o r
            ELSE << <<Head(s)>> \o Head(r) >> \o Tail(r)

\* str.startswith(prefix)
StartsWith(s, prefix) ==
    /\ Len(s) >= Len(prefix)
    /\ SubSeq(s, 1, Len(prefix)) = prefix

(***************************************************************************)
(* Values: None, errors, inodes.                                           *)
(***************************************************************************)
\* Python's None where an INode is expected (parent, relnode)
NoNode == [none |-> TRUE]

\* Python's None as a filename: no path segment equals it
NoName == <<"<None>">>

NoResult == [idle |-> TRUE]

NoCall == [op |-> "none"]

\* Python's None where a list is expected (INode._runlist); a list is [runs |-> <<...>>]
NoList == [none |-> TRUE]

Err(kind) == [err |-> kind]

IsErr(r) == "err" \in DOMAIN r

\* INode.__init__: the fields set from the arguments (filetype 0 stands for None)
INode(inum, filename, filetype, parent) ==
    [inum |-> inum, filename |-> filename, filetype |-> filetype, parent |-> parent]

IsNode(n) == "inum" \in DOMAIN n

XFS_DINODE_MAGIC == 18766

(***************************************************************************)
(* The image.  A small directory tree whose symlink targets, symlink       *)
(* storage, version and directory file-type bytes vary:                    *)
(*     1  /        directory (shortform)   d -> 2, f -> 3, l -> 4          *)
(*     2  /d       directory (block)       . -> 2, .. -> 1, m -> 5, g -> 3 *)
(*     3  /f, /d/g regular file                                            *)
(*     4  /l       symlink                                                 *)
(*     5  /d/m     symlink                                                 *)
(***************************************************************************)
Dinode(mode, format) == [di_magic |-> XFS_DINODE_MAGIC, di_mode |-> mode, di_format |-> format]

DirEntry(name, inumber, ftype) == [name |-> name, inumber |-> inumber, ftype |-> ftype]

\* what the data fork / data blocks of an inode hold when read as a symlink
Content(sl_magic, nruns, text) == [sl_magic |-> sl_magic, nruns |-> nruns, text |-> text]

NoDir == [parent |-> 0, count |-> 0, entries |-> <<>>]

MkImage(t4, t5, store4, version, has_ftype, lbyte) ==
    [ version |-> version,
      has_ftype |-> has_ftype,
      sb_rootino |-> 1,
      dinode |-> << Dinode(S_IFDIR + 493, XFS_DINODE_FMT_LOCAL),
                    Dinode(S_IFDIR + 493, XFS_DINODE_FMT_EXTENTS),
                    Dinode(S_IFREG + 420, XFS_DINODE_FMT_EXTENTS),
                    Dinode(S_IFLNK + 511, store4.format),
                    Dinode(S_IFLNK + 511, XFS_DINODE_FMT_LOCAL) >>,
      dir |-> << [parent |-> 1, count |-> 3,
                  entries |-> << DirEntry(<<"d">>, 2, 2),
                                 DirEntry(<<"f">>, 3, 1),
                                 DirEntry(<<"l">>, 4, lbyte) >>],
                 [parent |-> 1, count |-> 4,
                  entries |-> << DirEntry(<<".">>, 2, 2),
                                 DirEntry(<<".", ".">>, 1, 2),
                                 DirEntry(<<"m">>, 5, 7),
                                 DirEntry(<<"g">>, 3, 1) >>],
                 NoDir, NoDir, NoDir >>,
      content |-> << Content(0, 1, <<"?">>),
                     Content(0, 1, <<"?">>),
                     Content(0, 1, <<"r">>),
                     Content(store4.sl_magic, store4.nruns, t4),
                     Content(0, 1, t5) >> ]

\* targets of /l
Targets4 ==
    { <<"d">>, <<"l">>, <<"d", "/", "m">>, <<"/", "f">>, <<"l", "/", "x">> }

\* targets of /d/m
Targets5 ==
    { <<".", ".", "/", "f">>, <<"m">>, <<"/", "l">> }

StoreLocal == [version |-> 5, format |-> XFS_DINODE_FMT_LOCAL, sl_magic |-> 0, nruns |-> 1]

\* how /l is stored, and on which version
Stores4 ==
    { StoreLocal,
      [version |-> 5, format |-> XFS_DINODE_FMT_EXTENTS, sl_magic |-> XFS_SYMLINK_MAGIC, nruns |-> 1],
      [version |-> 5, format |-> XFS_DINODE_FMT_EXTENTS, sl_magic |-> 0, nruns |-> 1],
      [version |-> 5, format |-> XFS_DINODE_FMT_EXTENTS, sl_magic |-> XFS_SYMLINK_MAGIC, nruns |-> 2],
      [version |-> 4, format |-> XFS_DINODE_FMT_EXTENTS, sl_magic |-> 0, nruns |-> 1],
      [version |-> 5, format |-> XFS_DINODE_FMT_DEV, sl_magic |-> 0, nruns |-> 1] }

FtypeExact == [has_ftype |-> TRUE, lbyte |-> 7]

\* the file-type feature and the file-type byte recorded for the entry l
Ftypes ==
    { FtypeExact,
      [has_ftype |-> TRUE, lbyte |-> 1],
      [has_ftype |-> TRUE, lbyte |-> 0],
      [has_ftype |-> FALSE, lbyte |-> 0] }

\* the storage varies with exact file-type bytes, the file-type bytes with inline storage
Variants ==
    { [store |-> s, ft |-> FtypeExact] : s \in Stores4 }
    \cup { [store |-> StoreLocal, ft |-> f] : f \in Ftypes }

Images ==
    { MkImage(t4, t5, v.store, v.store.version, v.ft.has_ftype, v.ft.lbyte) :
        t4 \in Targets4, t5 \in Targets5, v \in Variants }

\* the paths given to XFS.get
Paths ==
    { <<>>, <<"l">>, <<"l", "/", "m">>, <<"d", "/", "m", "/">>, <<"/", "d", "/", "/", "g">>,
      <<"x">>, <<"f", "/", "x">>, <<"d", "/", ".", ".", "/", "l">> }

(***************************************************************************)
(* INode properties.                                                       *)
(***************************************************************************)
\* a get_inode that reads the dinode whatever lazy says
XfsGetInodeEager(inum, filename, filetype, parent, lazy) ==
    IF inum \notin DOMAIN image.dinode THEN Err("Error")
    ELSE IF image.dinode[inum].di_magic # XFS_DINODE_MAGIC THEN Err("Error")
    ELSE INode(inum, filename, filetype, parent)

\* XFS.get_relative_inode's range check, AllocationGroup.get_inode, INode._read_inode
XfsGetInode(inum, filename, filetype, parent, lazy) ==
    IF inum \notin DOMAIN image.dinode THEN Err("Error")
    ELSE IF ~lazy /\ image.dinode[inum].di_magic # XFS_DINODE_MAGIC THEN Err("Error")
    ELSE INode(inum, filename, filetype, parent)

\* XFS.__init__: self.root = self.get_inode(self.sb.sb_rootino)
Root == INode(image.sb_rootino, NoName, 0, NoNode)

\* a filetype that always reads the dinode
FiletypeOfDinode(node) == S_IFMT(image.dinode[node.inum].di_mode)

\* INode.filetype
Filetype(node) ==
    IF node.filetype # 0 THEN node.filetype
    ELSE S_IFMT(image.dinode[node.inum].di_mode)

\* INode.open, read to the end and decoded
OpenRead(node) ==
    IF image.dinode[node.inum].di_format \in
           {XFS_DINODE_FMT_LOCAL, XFS_DINODE_FMT_EXTENTS, XFS_DINODE_FMT_BTREE}
    THEN [val |-> image.content[node.inum].text]
    ELSE Err("UnsupportedDataforkException")

\* INode.link
Link(node) ==
    IF Filetype(node) # S_IFLNK THEN Err("NotASymlinkError")
    ELSE IF image.dinode[node.inum].di_format # XFS_DINODE_FMT_LOCAL /\ image.version = 5
    THEN IF image.content[node.inum].nruns > 1 THEN Err("NotImplementedError")
         ELSE IF image.content[node.inum].sl_magic # XFS_SYMLINK_MAGIC
         THEN Err("NotASymlinkError")
         ELSE [val |-> image.content[node.inum].text]
    ELSE OpenRead(node)

\* FILETYPES[ftype] for the entry's file-type byte
EntryFiletype(b) == IF b \in DOMAIN FILETYPES THEN [val |-> FILETYPES[b]] ELSE Err("KeyError")

\* a shortform enumeration that yields the parent before the directory itself
IterdirLocalParentFirst(node) ==
    LET d == image.dir[node.inum]
    IN << XfsGetInode(d.parent, <<".", ".">>, 0, NoNode, FALSE),
          XfsGetInode(node.inum, <<".">>, 0, NoNode, FALSE) >>
       \o [k \in 1..d.count |->
             IF k > Len(d.entries) THEN Err("EOFError")
             ELSE LET e == d.entries[k]
                      ft == EntryFiletype(IF image.has_ftype THEN e.ftype ELSE 0)
                  IN IF IsErr(ft) THEN ft
                     ELSE XfsGetInode(e.inumber, e.name, ft.val, node, TRUE)]

\* INode.iterdir, shortform branch: the items yielded, an error standing where it is raised
IterdirLocal(node) ==
    LET d == image.dir[node.inum]
    IN << XfsGetInode(node.inum, <<".">>, 0, NoNode, FALSE),
          XfsGetInode(d.parent, <<".", ".">>, 0, NoNode, FALSE) >>
       \o [k \in 1..d.count |->
             IF k > Len(d.entries) THEN Err("EOFError")
             ELSE LET e == d.entries[k]
                      ft == EntryFiletype(IF image.has_ftype THEN e.ftype ELSE 0)
                  IN IF IsErr(ft) THEN ft
                     ELSE XfsGetInode(e.inumber, e.name, ft.val, node, TRUE)]

\* INode.iterdir, block branch
IterdirBlocks(node) ==
    LET d == image.dir[node.inum]
    IN [k \in 1..Len(d.entries) |->
             LET e == d.entries[k]
                 ft == IF image.has_ftype THEN EntryFiletype(e.ftype) ELSE [val |-> 0]
             IN IF IsErr(ft) THEN ft
                ELSE XfsGetInode(e.inumber, e.name, ft.val, node, TRUE)]

\* an enumeration without the test of the filetype
IterdirUnchecked(node) ==
    IF image.dinode[node.inum].di_format = XFS_DINODE_FMT_LOCAL
    THEN [items |-> IterdirLocal(node)]
    ELSE IF image.dinode[node.inum].di_format \in {XFS_DINODE_FMT_EXTENTS, XFS_DINODE_FMT_BTREE}
    THEN [items |-> IterdirBlocks(node)]
    ELSE Err("UnsupportedDataforkException")

\* INode.iterdir: an error raised before the first item, or the items
Iterdir(node) ==
    IF Filetype(node) # S_IFDIR THEN Err("NotADirectoryError")
    ELSE IF image.dinode[node.inum].di_format = XFS_DINODE_FMT_LOCAL
    THEN [items |-> IterdirLocal(node)]
    ELSE IF image.dinode[node.inum].di_format \in {XFS_DINODE_FMT_EXTENTS, XFS_DINODE_FMT_BTREE}
    THEN [items |-> IterdirBlocks(node)]
    ELSE Err("UnsupportedDataforkException")

RECURSIVE FirstMatch(_, _)
\* XFS.get's for/else over node.iterdir(): the first entry whose filename is part, the
\* error raised by the enumeration before it, or FileNotFoundError
FirstMatch(items, part) ==
    IF items = <<>> THEN Err("FileNotFoundError")
    ELSE IF IsErr(Head(items)) THEN Head(items)
    ELSE IF Head(items).filename = part THEN Head(items)
    ELSE FirstMatch(Tail(items), part)

\* a for loop without its else branch: the node stays when no entry matches
LookupNoElse(node, part) ==
    LET it == Iterdir(node)
    IN IF IsErr(it) THEN it
       ELSE IF FirstMatch(it.items, part) = Err("FileNotFoundError") THEN node
       ELSE FirstMatch(it.items, part)

\* XFS.get: the lookup of one segment in node
Lookup(node, part) ==
    LET it == Iterdir(node)
    IN IF IsErr(it) THEN it ELSE FirstMatch(it.items, part)

(***************************************************************************)
(* XFS.get and INode.link_inode as a machine over the Python call stack.   *)
(* A frame of XFS.get holds its arguments and locals and its position:     *)
(*   "for"      at the head of `for part in parts`                         *)
(*   "while"    at the test of `while node.filetype == stat.S_IFLNK`       *)
(*   "assign"   node.link_inode has returned ret, `node = ...` is pending  *)
(*   "iterdir"  at `for entry in node.iterdir()`                           *)
(* A frame of link_inode is at "call" (entered) or "get" (inside its call  *)
(* of self.xfs.get).                                                       *)
(***************************************************************************)
\* the interpreter's recursion limit, in frames of XFS.get / link_inode
MaxDepth == 7

GetFrame(path, node) ==
    [op |-> "get", path |-> path, parts |-> Split(path), i |-> 1,
     node |-> IF node = NoNode THEN Root ELSE node, ret |-> NoNode, pc |-> "for"]

LinkFrame(self) == [op |-> "link_inode", self |-> self, pc |-> "call"]

Top == stack[Len(stack)]

Below == SubSeq(stack, 1, Len(stack) - 1)

Running == stack # <<>>

AtGet(pc) == Running /\ Top.op = "get" /\ Top.pc = pc

AtLink(pc) == Running /\ Top.op = "link_inode" /\ Top.pc = pc

\* an exception propagates through every frame: no frame of this code catches it
Raise(e) ==
    /\ stack' = <<>>
    /\ result' = e
    /\ UNCHANGED link_inode_memo

\* push a frame, or exceed the recursion limit
Push(rest, frame) ==
    IF Len(rest) + 1 > MaxDepth THEN Raise(Err("RecursionError"))
    ELSE /\ stack' = Append(rest, frame)
         /\ UNCHANGED <<result, link_inode_memo>>

\* link_inode returns v to the frame (or the caller) under it
LinkReturn(rest, v) ==
    IF rest = <<>>
    THEN /\ stack' = <<>>
         /\ result' = v
    ELSE /\ stack' = Append(SubSeq(rest, 1, Len(rest) - 1),
                            [rest[Len(rest)] EXCEPT !.ret = v, !.pc = "assign"])
         /\ UNCHANGED result

\* XFS.get returns v: to the caller, or into link_inode, which memoizes it and returns it
GetReturn(rest, v) ==
    IF rest = <<>>
    THEN /\ stack' = <<>>
         /\ result' = v
         /\ UNCHANGED link_inode_memo
    ELSE /\ link_inode_memo' = (rest[Len(rest)].self :> v) @@ link_inode_memo
         /\ LinkReturn(SubSeq(rest, 1, Len(rest) - 1), v)

\* the variant that resolves a "../" target in the grandparent
RelnodeGrandparent(self, link) ==
    IF StartsWith(link, <<"/">>) THEN NoNode
    ELSE IF StartsWith(link, <<".", ".", "/">>)
    THEN IF self.parent = NoNode THEN Err("SymlinkUnavailableException")
         ELSE self.parent.parent
    ELSE self.parent

\* the variant that refuses every relative target of a symlink without parent
RelnodeNeedsParent(self, link) ==
    IF StartsWith(link, <<"/">>) THEN NoNode
    ELSE IF self.parent = NoNode THEN Err("SymlinkUnavailableException")
    ELSE self.parent

\* link_inode: the node the target is resolved from (None: the root), or the error
Relnode(self, link) ==
    IF StartsWith(link, <<"/">>) THEN NoNode
    ELSE IF StartsWith(link, <<".", ".", "/">>)
    THEN IF self.parent = NoNode THEN Err("SymlinkUnavailableException") ELSE self.parent
    ELSE self.parent

\* the nodes a caller holds: inodes by number (XFS.get(inum)) and the last result;
\* a caller makes one XFS.get and then follows link / link_inode from what it holds
ByNumber == { INode(i, NoName, 0, NoNode) : i \in DOMAIN image.dinode }

Held == ByNumber \cup (IF IsNode(result) THEN {result} ELSE {})

\* a call of XFS.get(path, node) by the caller, the first call on a filesystem object
CallGet ==
    /\ ~Running
    /\ result = NoResult
    /\ \E path \in Paths, node \in {NoNode} \cup Held :
         /\ call' = [op |-> "get", path |-> path, node |-> node]
         /\ stack' = <<GetFrame(path, node)>>
    /\ result' = NoResult
    /\ UNCHANGED <<image, link_inode_memo, notpath>>

\* an evaluation of node.link_inode by the caller
CallLinkInode ==
    /\ ~Running
    /\ \E node \in Held :
         /\ call' = [op |-> "link_inode", node |-> node]
         /\ stack' = <<LinkFrame(node)>>
    /\ result' = NoResult
    /\ UNCHANGED <<image, link_inode_memo, notpath>>

\* an evaluation of node.link by the caller
CallLink ==
    /\ ~Running
    /\ \E node \in Held :
         /\ call' = [op |-> "link", node |-> node]
         /\ result' = Link(node)
    /\ UNCHANGED <<image, stack, link_inode_memo, notpath>>

\* XFS.get: the head of the for loop
GetFor ==
    /\ AtGet("for")
    /\ IF Top.i > Len(Top.parts) THEN GetReturn(Below, Top.node)
       ELSE /\ stack' = Append(Below,
                   IF Top.parts[Top.i] = <<>>
                   THEN [Top EXCEPT !.i = Top.i + 1]
                   ELSE [Top EXCEPT !.pc = "while"])
            /\ UNCHANGED <<result, link_inode_memo>>
    /\ UNCHANGED <<image, call, notpath>>

\* a get that looks the segment up without dereferencing the current node
IsSymlinkNever(node) == FALSE

\* XFS.get: the test of `while node.filetype == stat.S_IFLNK`
IsSymlink(node) == Filetype(node) = S_IFLNK

\* XFS.get: while node.filetype == stat.S_IFLNK: (evaluate) node.link_inode
GetWhile ==
    /\ AtGet("while")
    /\ IF IsSymlink(Top.node)
       THEN Push(stack, LinkFrame(Top.node))
       ELSE /\ stack' = Append(Below, [Top EXCEPT !.pc = "iterdir"])
            /\ UNCHANGED <<result, link_inode_memo>>
    /\ UNCHANGED <<image, call, notpath>>

\* XFS.get: node = (the value of node.link_inode)
GetAssign ==
    /\ AtGet("assign")
    /\ stack' = Append(Below, [Top EXCEPT !.node = Top.ret, !.ret = NoNode, !.pc = "while"])
    /\ UNCHANGED <<image, call, result, link_inode_memo, notpath>>

\* XFS.get: for entry in node.iterdir(): ... else: raise FileNotFoundError
GetIterdir ==
    /\ AtGet("iterdir")
    /\ LET found == Lookup(Top.node, Top.parts[Top.i])
       IN IF IsErr(found) THEN Raise(found)
          ELSE /\ stack' = Append(Below, [Top EXCEPT !.node = found, !.i = Top.i + 1, !.pc = "for"])
               /\ UNCHANGED <<result, link_inode_memo>>
    /\ UNCHANGED <<image, call, notpath>>

\* INode.link_inode up to its call of self.xfs.get
LinkInode ==
    /\ AtLink("call")
    /\ IF Top.self \in DOMAIN link_inode_memo
       THEN /\ LinkReturn(Below, link_inode_memo[Top.self])
            /\ UNCHANGED link_inode_memo
       ELSE LET link == Link(Top.self)
            IN IF IsErr(link) THEN Raise(link)
               ELSE LET relnode == Relnode(Top.self, link.val)
                    IN IF IsErr(relnode) THEN Raise(relnode)
                       ELSE Push(Append(Below, [Top EXCEPT !.pc = "get"]),
                                 GetFrame(link.val, relnode))
    /\ UNCHANGED <<image, call, notpath>>

\* the caller drops the filesystem object and opens the image again
Reopen ==
    /\ ~Running
    /\ result # NoResult
    /\ call' = NoCall
    /\ stack' = <<>>
    /\ result' = NoResult
    /\ link_inode_memo' = <<>>
    /\ UNCHANGED <<image, notpath>>

Init ==
    /\ image \in Images
    /\ call = NoCall
    /\ stack = <<>>
    /\ result = NoResult
    /\ link_inode_memo = <<>>
    /\ runlist = NoList
    /\ dirlist = <<>>
    /\ ag = <<>>

Step == GetFor \/ GetWhile \/ GetAssign \/ GetIterdir \/ LinkInode

Next == CallGet \/ CallLinkInode \/ CallLink \/ Step \/ Reopen

Spec == Init /\ [][Next]_vars

\* the interpreter keeps running a call that has a next step
FairSpec == Init /\ [][Next]_vars /\ WF_vars(Step)

(***************************************************************************)
(* Path resolution: claims C1, C2, C3, C8, C9, C10.                        *)
(***************************************************************************)
Range(f) == { f[x] : x \in DOMAIN f }

NonEmptyParts(path) == SelectSeq(Split(path), LAMBDA part : part # <<>>)

LastPart(path) == NonEmptyParts(path)[Len(NonEmptyParts(path))]

\* a top-level XFS.get has returned a node
GetReturned == ~Running /\ call.op = "get" /\ IsNode(result)

\* C1: XFS.get dereferences symlinks only between segments: a segment is looked up only
\* in a node that is not a symlink, every replacement of the current node before a
\* lookup is by that node's link_inode, and the node returned is the entry matched by the
\* last non-empty segment, as the enumeration yielded it (not dereferenced).
C1_DerefBetweenSegments ==
    /\ [](AtGet("iterdir") => Filetype(Top.node) # S_IFLNK)
    /\ [][AtGet("assign") =>
             /\ Filetype(Top.node) = S_IFLNK
             /\ Top.node \in DOMAIN link_inode_memo
             /\ Top.ret = link_inode_memo[Top.node]
             /\ stack' = Append(Below, [Top EXCEPT !.node = Top.ret, !.ret = NoNode, !.pc = "while"])]_vars
    /\ [][(AtGet("iterdir") /\ stack' # <<>>) =>
             /\ stack'[Len(stack)].pc = "for"
             /\ stack'[Len(stack)].node.filename = Top.parts[Top.i]
             /\ stack'[Len(stack)].node \in Range(Iterdir(Top.node).items)]_vars
    /\ [](GetReturned /\ NonEmptyParts(call.path) # <<>> =>
             /\ result.filename = LastPart(call.path)
             /\ result.parent # NoNode => result \in Range(Iterdir(result.parent).items))

\* C1 witness: get("l/m") went through the symlink l and returned the symlink m itself
C1_Witness ==
    /\ GetReturned
    /\ call.path = <<"l", "/", "m">>
    /\ Filetype(result) = S_IFLNK
    /\ result.inum = 5
    /\ \E n \in DOMAIN link_inode_memo : n.inum = 4

\* the enumeration of node runs to its end without an error
Enumerates(node) ==
    /\ ~IsErr(Iterdir(node))
    /\ \A k \in DOMAIN Iterdir(node).items : IsNode(Iterdir(node).items[k])

\* C2: a non-empty segment that is the filename of no entry enumerated from the current
\* directory makes the whole call fail with FileNotFound (no node is returned); a segment
\* that is matched moves to the first entry of that name, and when every segment is
\* matched the call returns the entry matched by the last one.
C2_FileNotFound ==
    /\ [][(AtGet("iterdir") /\ Enumerates(Top.node)) =>
             IF \A k \in DOMAIN Iterdir(Top.node).items :
                    Iterdir(Top.node).items[k].filename # Top.parts[Top.i]
             THEN /\ stack' = <<>>
                  /\ result' = Err("FileNotFoundError")
             ELSE \E k \in DOMAIN Iterdir(Top.node).items :
                    /\ Iterdir(Top.node).items[k].filename = Top.parts[Top.i]
                    /\ \A j \in 1..(k - 1) :
                          Iterdir(Top.node).items[j].filename # Top.parts[Top.i]
                    /\ stack' = Append(Below, [Top EXCEPT !.node = Iterdir(Top.node).items[k],
                                                          !.i = Top.i + 1, !.pc = "for"])]_vars
    /\ [][(AtGet("for") /\ Len(stack) = 1 /\ Top.i > Len(Top.parts)) =>
             /\ stack' = <<>>
             /\ result' = Top.node]_vars
    /\ [](~Running /\ call.op = "get" /\ result = Err("FileNotFoundError") =>
             NonEmptyParts(call.path) # <<>>)

\* C2 witness: get("x") on the root, which enumerates and has no entry x, failed
C2_Witness ==
    /\ ~Running
    /\ call.op = "get"
    /\ call.path = <<"x">>
    /\ call.node = NoNode
    /\ result = Err("FileNotFoundError")

\* C3: every call of XFS.get (with the link_inode evaluations it triggers) eventually
\* returns a node or fails with an error.
C3_Terminates == Running ~> ~Running

\* the nodes the program holds
NodesInPlay ==
    (IF IsNode(result) THEN {result} ELSE {})
    \cup { stack[k].node : k \in { j \in DOMAIN stack : stack[j].op = "get" } }
    \cup DOMAIN link_inode_memo

\* the file-type byte the enumeration of the parent read for node (0: none was read)
DirentByte(node) ==
    IF node.parent = NoNode \/ ~image.has_ftype THEN 0
    ELSE LET es == image.dir[node.parent.inum].entries
             ks == { k \in DOMAIN es : es[k].name = node.filename /\ es[k].inumber = node.inum }
         IN IF ks = {} THEN 0 ELSE es[CHOOSE k \in ks : TRUE].ftype

\* C8 as stated: the filetype of every inode, however obtained, is S_IFMT(di_mode).
C8_FiletypeIsMode ==
    \A node \in NodesInPlay : Filetype(node) = S_IFMT(image.dinode[node.inum].di_mode)

\* C8 amended: the filetype of an inode is S_IFMT(di_mode) unless the inode was yielded by
\* a directory enumeration that read a file-type byte 1..7 for it; then it is
\* FILETYPES[byte], whatever di_mode is.
C8_FiletypeFromDirent ==
    \A node \in NodesInPlay :
        Filetype(node) = IF DirentByte(node) \in 1..7
                         THEN FILETYPES[DirentByte(node)]
                         ELSE S_IFMT(image.dinode[node.inum].di_mode)

\* C8 witness: get returned the entry l, whose byte says regular file and whose dinode
\* says symlink
C8_Witness ==
    /\ GetReturned
    /\ result.inum = 4
    /\ DirentByte(result) = 1
    /\ S_IFMT(image.dinode[result.inum].di_mode) = S_IFLNK

\* C9: link and link_inode fail with NotASymlink exactly when the inode's filetype is
\* not S_IFLNK.
C9_NotASymlinkIff ==
    (~Running /\ call.op \in {"link", "link_inode"} /\ result # NoResult) =>
        (result = Err("NotASymlinkError") <=> Filetype(call.node) # S_IFLNK)

\* C10: link_inode of a symlink with a recorded parent is XFS.get(link, parent) for a
\* relative target ("../" included) and XFS.get(link, root) for a target starting with
\* "/"; a "../" target without a recorded parent fails with SymlinkUnavailable; and what
\* that XFS.get returns is what link_inode returns (and memoizes).
C10_LinkInodeIsGet ==
    /\ [][(AtLink("call") /\ Top.self \notin DOMAIN link_inode_memo /\ ~IsErr(Link(Top.self))) =>
             LET link == Link(Top.self).val
             IN IF Top.self.parent # NoNode
                THEN \/ /\ Len(stack) + 1 > MaxDepth
                        /\ result' = Err("RecursionError")
                     \/ /\ Len(stack') = Len(stack) + 1
                        /\ stack'[Len(stack)].self = Top.self
                        /\ stack'[Len(stack')] =
                              GetFrame(link, IF StartsWith(link, <<"/">>) THEN Root
                                             ELSE Top.self.parent)
                ELSE StartsWith(link, <<".", ".", "/">>) =>
                        /\ stack' = <<>>
                        /\ result' = Err("SymlinkUnavailableException")]_vars
    /\ [][(AtGet("for") /\ Len(stack) > 1 /\ Top.i > Len(Top.parts)) =>
             /\ link_inode_memo'[stack[Len(stack) - 1].self] = Top.node
             /\ IF Len(stack) = 2 THEN result' = Top.node
                ELSE /\ stack'[Len(stack) - 2].ret = Top.node
                     /\ Len(stack') = Len(stack) - 2]_vars

\* C10 witness: the symlink m found in /d, whose target is "../f", resolved to f
C10_Witness ==
    /\ ~Running
    /\ call.op = "link_inode"
    /\ call.node.parent # NoNode
    /\ call.node.inum = 5
    /\ Link(call.node) = [val |-> <<".", ".", "/", "f">>]
    /\ IsNode(result)
    /\ result.inum = 3

(***************************************************************************)
(* INode.dataruns on one EXTENTS / BTREE inode.  The image is the inode's  *)
(* size and the extent records INode._iter_blocks yields for it, with the  *)
(* superblock fields the conversion of block numbers reads.                *)
(***************************************************************************)
MaxExtents == 2
MaxOffset == 2
MaxCount == 2

\* a run of the run-list: (None, length) or (block, length)
Hole(length) == [hole |-> TRUE, block |-> 0, length |-> length]

Backed(block, length) == [hole |-> FALSE, block |-> block, length |-> length]

\* one extent as _iter_blocks yields it: (offset, block, count, flag)
Extents ==
    [offset : 0..MaxOffset, block : {1, 5}, count : 0..MaxCount, flag : {0}]

ExtentLists == UNION { [1..n -> Extents] : n \in 0..MaxExtents }

RunImages ==
    { [block_size |-> 512, sb_agblklog |-> 2, sb_agblocks |-> 3,
       di_size |-> size, extents |-> es] :
        size \in {0, 512, 513, 1536}, es \in ExtentLists }

\* what INode.dataruns leaves alone
notruns == <<link_inode_memo, dirlist, ag>>

\* fsb_to_bb
fsb_to_bb(block, agblklog) == <<block \div (2 ^ agblklog), block % (2 ^ agblklog)>>

\* dataruns: expected_runs
ExpectedRuns == (image.di_size + image.block_size - 1) \div image.block_size

\* dataruns: the runs one extent appends at running offset run_offset
ExtentRuns(e, run_offset) ==
    (IF e.offset # run_offset THEN <<Hole(e.offset - run_offset)>> ELSE <<>>)
    \o <<Backed(fsb_to_bb(e.block, image.sb_agblklog)[1] * image.sb_agblocks
                  + fsb_to_bb(e.block, image.sb_agblklog)[2], e.count)>>

\* dataruns: run_offset after one extent
ExtentOffset(e, run_offset) ==
    (IF e.offset # run_offset THEN run_offset + (e.offset - run_offset) ELSE run_offset)
    + e.count

\* a dataruns that forgets the hole after the last extent
TrailingHoleNever(run_offset, expected_runs) == <<>>

\* dataruns: the hole appended after the loop
TrailingHole(run_offset, expected_runs) ==
    IF run_offset < expected_runs THEN <<Hole(expected_runs - run_offset)>> ELSE <<>>

AtRuns == Running /\ Top.op = "dataruns"

\* a call of inode.dataruns(): `if not self._runlist` starts the loop, else the memo returns
CallDataruns ==
    /\ ~Running
    /\ call' = [op |-> "dataruns"]
    /\ IF runlist = NoList \/ runlist.runs = <<>>
       THEN /\ stack' = << [op |-> "dataruns", runs |-> <<>>, run_offset |-> 0,
                            expected_runs |-> ExpectedRuns, k |-> 1] >>
            /\ result' = NoResult
       ELSE /\ stack' = <<>>
            /\ result' = runlist
    /\ UNCHANGED <<image, runlist, notruns>>

\* dataruns: one iteration of `for offset, block, count, _ in self._iter_blocks()`
DatarunsExtent ==
    /\ AtRuns
    /\ Top.k <= Len(image.extents)
    /\ stack' = << [Top EXCEPT
                      !.runs = Top.runs \o ExtentRuns(image.extents[Top.k], Top.run_offset),
                      !.run_offset = ExtentOffset(image.extents[Top.k], Top.run_offset),
                      !.k = Top.k + 1] >>
    /\ UNCHANGED <<image, call, result, runlist, notruns>>

\* dataruns: after the loop, the trailing hole, the memo and the return
DatarunsReturn ==
    /\ AtRuns
    /\ Top.k > Len(image.extents)
    /\ runlist' = [runs |-> Top.runs \o TrailingHole(Top.run_offset, Top.expected_runs)]
    /\ result' = runlist'
    /\ stack' = <<>>
    /\ UNCHANGED <<image, call, notruns>>

InitRuns ==
    /\ image \in RunImages
    /\ call = NoCall
    /\ stack = <<>>
    /\ result = NoResult
    /\ link_inode_memo = <<>>
    /\ runlist = NoList
    /\ dirlist = <<>>
    /\ ag = <<>>

NextRuns == CallDataruns \/ DatarunsExtent \/ DatarunsReturn

SpecRuns == InitRuns /\ [][NextRuns]_vars

RECURSIVE SumLengths(_)
SumLengths(runs) == IF runs = <<>> THEN 0 ELSE Head(runs).length + SumLengths(Tail(runs))

Max(a, b) == IF a >= b THEN a ELSE b

\* the end (logical offset + count) of the last extent, 0 without extents
LastExtentEnd ==
    IF image.extents = <<>> THEN 0
    ELSE image.extents[Len(image.extents)].offset + image.extents[Len(image.extents)].count

DatarunsReturned == ~Running /\ call.op = "dataruns" /\ "runs" \in DOMAIN result

C5_HolesAreGaps ==
    /\ [][(AtRuns /\ Top.k <= Len(image.extents)) =>
             LET e == image.extents[Top.k]
             IN /\ Len(stack'[1].runs) = Len(Top.runs) + (IF e.offset > Top.run_offset THEN 2 ELSE 1)
                /\ e.offset > Top.run_offset =>
                      stack'[1].runs[Len(Top.runs) + 1] = Hole(e.offset - Top.run_offset)
                /\ ~stack'[1].runs[Len(stack'[1].runs)].hole
                /\ stack'[1].runs[Len(stack'[1].runs)].length = e.count]_vars
    /\ [][(AtRuns /\ Top.k > Len(image.extents)) =>
             runlist'.runs = Top.runs \o (IF Top.run_offset < ExpectedRuns
                                     THEN <<Hole(ExpectedRuns - Top.run_offset)>>
                                     ELSE <<>>)]_vars
    /\ [](DatarunsReturned =>
             /\ \A k \in DOMAIN result.runs : result.runs[k].hole => result.runs[k].length > 0
             /\ LET backed == SelectSeq(result.runs, LAMBDA r : ~r.hole)
                IN /\ Len(backed) = Len(image.extents)
                   /\ \A k \in DOMAIN backed : backed[k].length = image.extents[k].count)

(***************************************************************************)
(* XFS.__init__, XFS.get_inode and XFS.get_allocation_group: the split of  *)
(* an absolute inode number with the filesystem's bit width and its        *)
(* recomposition by the INode with the bit width of its allocation group.  *)
(* The image is what lies at the start of each allocation-group-sized      *)
(* stretch of the device: a superblock (copy) and the AGI magic.  The      *)
(* device holds one stretch more than sb_agcount counts.                   *)
(***************************************************************************)
MaxInum == 31
MaxAg == 3

XFS_SB_MAGIC == 1481003842
XFS_AGI_MAGIC == 1480673097

\* the fields of xfs_sb (and the AGI magic) that construction and get_inode read
Superblock(magic, agblklog, agblocks, agcount) ==
    [sb_magicnum |-> magic, sb_blocksize |-> 512, sb_agblklog |-> agblklog,
     sb_inopblog |-> 1, sb_agblocks |-> agblocks, sb_inopblock |-> 2,
     sb_agcount |-> agcount, sb_rootino |-> 0, sb_inprogress |-> 0,
     agi_magicnum |-> XFS_AGI_MAGIC]

\* the superblocks at the start of the device: sound ones of two geometries, one left
\* by an unfinished mkfs, and ones the constructor must reject
PrimarySuperblocks ==
    { Superblock(XFS_SB_MAGIC, l, 1, 2) : l \in 1..2 }
    \cup { [Superblock(XFS_SB_MAGIC, l, 1, 2) EXCEPT !.sb_inprogress = 1] : l \in 1..2 }
    \cup { Superblock(0, 1, 1, 2),
           [Superblock(XFS_SB_MAGIC, 1, 1, 2) EXCEPT !.sb_blocksize = 0],
           [Superblock(XFS_SB_MAGIC, 1, 1, 2) EXCEPT !.sb_blocksize = 100],
           [Superblock(XFS_SB_MAGIC, 1, 1, 2) EXCEPT !.agi_magicnum = 0] }

\* the copies in the stretches after the first: copies that agree with the primary, one
\* that records another sb_agblklog, one without the magic, one with sb_inprogress set
SuperblockCopies(primary) ==
    LET agree == [primary EXCEPT !.sb_magicnum = XFS_SB_MAGIC, !.sb_blocksize = 512,
                                 !.agi_magicnum = XFS_AGI_MAGIC, !.sb_inprogress = 0]
        other == [agree EXCEPT !.sb_agblklog = 3 - primary.sb_agblklog]
    IN { <<agree, agree>>,
         <<other, agree>>,
         <<[agree EXCEPT !.sb_magicnum = 0], other>>,
         <<[agree EXCEPT !.sb_inprogress = 1], agree>> }

\* nomagic is the set of <<agnum, relative inode number>> whose dinode does not start
\* with XFS_DINODE_MAGIC
InumImages ==
    UNION { { [sbs |-> <<primary>> \o copies, nomagic |-> nomagic] :
                copies \in SuperblockCopies(primary),
                nomagic \in { {}, {<<1, 0>>}, {<<0, 0>>} } } :
            primary \in PrimarySuperblocks }

\* what XFS.get_inode leaves alone
notinum == <<stack, link_inode_memo, runlist, dirlist>>

\* the capacity of lru_cache(4096) around AllocationGroup.get_inode, scaled down
CacheSize == 2

\* a key made of the inode number alone
CacheKeyInumOnly(inum, filename, filetype, parent, lazy) == <<inum>>

\* the key lru_cache makes of the arguments of get_inode (defaults filled in)
CacheKey(inum, filename, filetype, parent, lazy) == <<inum, filename, filetype, parent, lazy>>

\* the position of key in the cache, least recently used first, or 0
LruFind(cache, key) ==
    IF \E i \in 1..Len(cache) : cache[i].key = key
    THEN CHOOSE i \in 1..Len(cache) : cache[i].key = key
    ELSE 0

\* a hit: the entry becomes the most recently used
LruTouch(cache, i) ==
    SubSeq(cache, 1, i - 1) \o SubSeq(cache, i + 1, Len(cache)) \o <<cache[i]>>

\* a miss whose call returned value: the least recently used entry leaves a full cache
LruPut(cache, key, value) ==
    (IF Len(cache) >= CacheSize THEN Tail(cache) ELSE cache) \o <<[key |-> key, value |-> value]>>

\* AllocationGroup.__init__ for allocation group num: the object, or the error
AllocationGroup(num) ==
    IF num + 1 > Len(image.sbs) THEN Err("EOFError")
    ELSE LET sb == image.sbs[num + 1]
         IN IF sb.sb_magicnum # XFS_SB_MAGIC THEN Err("Error")
            ELSE IF sb.sb_blocksize = 0 \/ sb.sb_blocksize % 512 # 0 THEN Err("Error")
            ELSE IF sb.agi_magicnum # XFS_AGI_MAGIC THEN Err("Error")
            ELSE [num |-> num,
                  _inum_bits |-> sb.sb_agblklog + sb.sb_inopblog,
                  _inum_max |-> sb.sb_agblocks * sb.sb_inopblock,
                  cache |-> <<>>]

\* XFS.__init__: self.sb, self._inum_bits, self._inum_max come from allocation group 0
XfsSb == image.sbs[1]

XfsInumBits == XfsSb.sb_agblklog + XfsSb.sb_inopblog

XfsInumMax == XfsSb.sb_agblocks * XfsSb.sb_inopblock

\* INode.__init__: self.inum = inum + (ag.num << ag._inum_bits)
InodeInum(group, inum) == inum + group.num * (2 ^ group._inum_bits)

\* INode.__init__, and _read_inode unless lazy (filetype 0 stands for None)
NewInode(group, inum, filename, filetype, parent, lazy) ==
    [inum |-> InodeInum(group, inum), relative_inum |-> inum, agnum |-> group.num,
     filename |-> filename, filetype |-> filetype, parent |-> parent,
     _inode |-> ~lazy, _runlist |-> NoList, _link |-> NoList]

\* AllocationGroup.get_inode as defined: the INode, or the error of _read_inode
UncachedGetInode(group, inum, filename, filetype, parent, lazy) ==
    IF ~lazy /\ <<group.num, inum>> \in image.nomagic THEN Err("Error")
    ELSE NewInode(group, inum, filename, filetype, parent, lazy)

\* AllocationGroup.get_inode behind its lru_cache: the group afterwards and the INode
\* or the error (an error stores nothing)
AgGetInode(group, inum, filename, filetype, parent, lazy) ==
    LET key == CacheKey(inum, filename, filetype, parent, lazy)
        hit == LruFind(group.cache, key)
        made == UncachedGetInode(group, inum, filename, filetype, parent, lazy)
    IN IF hit # 0
       THEN [group |-> [group EXCEPT !.cache = LruTouch(@, hit)], ret |-> group.cache[hit].value]
       ELSE IF IsErr(made) THEN [group |-> group, ret |-> made]
       ELSE [group |-> [group EXCEPT !.cache = LruPut(@, key, made)], ret |-> made]

\* XFS.get_allocation_group on the map groups: the map afterwards and the group or error
GetAllocationGroup(groups, agnum) ==
    IF agnum \in DOMAIN groups THEN [ag |-> groups, ret |-> groups[agnum]]
    ELSE IF IsErr(AllocationGroup(agnum)) THEN [ag |-> groups, ret |-> AllocationGroup(agnum)]
    ELSE [ag |-> (agnum :> AllocationGroup(agnum)) @@ groups, ret |-> AllocationGroup(agnum)]

\* a get_relative_inode that fetches the allocation group before it checks the inode number
GetRelativeInodeGroupFirst(groups, agnum, inum) ==
    IF agnum >= XfsSb.sb_agcount THEN [ag |-> groups, ret |-> Err("Error")]
    ELSE LET got == GetAllocationGroup(groups, agnum)
         IN IF IsErr(got.ret) THEN got
            ELSE IF inum >= XfsInumMax THEN [ag |-> got.ag, ret |-> Err("Error")]
            ELSE [ag |-> [got.ag EXCEPT ![agnum] = AgGetInode(got.ret, inum, NoName, 0, NoNode, FALSE).group],
                  ret |-> AgGetInode(got.ret, inum, NoName, 0, NoNode, FALSE).ret]

\* XFS.get_relative_inode on the map groups: the map afterwards and what is returned
\* or raised
GetRelativeInodeIn(groups, agnum, inum) ==
    IF agnum >= XfsSb.sb_agcount THEN [ag |-> groups, ret |-> Err("Error")]
    ELSE IF inum >= XfsInumMax THEN [ag |-> groups, ret |-> Err("Error")]
    ELSE LET got == GetAllocationGroup(groups, agnum)
         IN IF IsErr(got.ret) THEN got
            ELSE [ag |-> [got.ag EXCEPT ![agnum] = AgGetInode(got.ret, inum, NoName, 0, NoNode, FALSE).group],
                  ret |-> AgGetInode(got.ret, inum, NoName, 0, NoNode, FALSE).ret]

\* XFS.get_inode: absinum >> self._inum_bits, absinum & self._inum_mask
GetInodeIn(groups, absinum) ==
    GetRelativeInodeIn(groups, absinum \div (2 ^ XfsInumBits), absinum % (2 ^ XfsInumBits))

\* XFS.get_relative_inode on the filesystem's map
GetRelativeInode(agnum, inum) == GetRelativeInodeIn(ag, agnum, inum)

\* the filesystem object exists
Constructed == 0 \in DOMAIN ag

\* XFS(fh): allocation group 0, then the root inode; an error leaves no object
Construct ==
    /\ ~Constructed
    /\ call = NoCall
    /\ call' = [op |-> "XFS"]
    /\ IF IsErr(AllocationGroup(0))
       THEN /\ ag' = ag
            /\ result' = AllocationGroup(0)
       ELSE LET root == GetInodeIn((0 :> AllocationGroup(0)), XfsSb.sb_rootino)
            IN IF IsErr(root.ret)
               THEN /\ ag' = ag
                    /\ result' = root.ret
               ELSE /\ ag' = root.ag
                    /\ result' = [xfs |-> TRUE]
    /\ UNCHANGED <<image, notinum>>

\* XFS.get(inum) / XFS.get_inode(absinum)
CallGetInode ==
    /\ Constructed
    /\ \E absinum \in 0..MaxInum :
         /\ call' = [op |-> "get_inode", absinum |-> absinum]
         /\ ag' = GetInodeIn(ag, absinum).ag
         /\ result' = GetInodeIn(ag, absinum).ret
    /\ UNCHANGED <<image, notinum>>

\* XFS.get_allocation_group(agnum)
CallGetAllocationGroup ==
    /\ Constructed
    /\ \E agnum \in 0..MaxAg :
         /\ call' = [op |-> "get_allocation_group", agnum |-> agnum]
         /\ ag' = GetAllocationGroup(ag, agnum).ag
         /\ result' = GetAllocationGroup(ag, agnum).ret
    /\ UNCHANGED <<image, notinum>>

InitInum ==
    /\ image \in InumImages
    /\ call = NoCall
    /\ stack = <<>>
    /\ result = NoResult
    /\ link_inode_memo = <<>>
    /\ runlist = NoList
    /\ dirlist = <<>>
    /\ ag = <<>>

NextInum == Construct \/ CallGetInode \/ CallGetAllocationGroup

SpecInum == InitInum /\ [][NextInum]_vars

OutOfRange(absinum) ==
    \/ absinum \div (2 ^ XfsInumBits) >= XfsSb.sb_agcount
    \/ absinum % (2 ^ XfsInumBits) >= XfsSb.sb_agblocks * XfsSb.sb_inopblock

\* C12: XFS.get_inode(absolute) fails with an error when absolute >> inum_bits is
\* >= sb_agcount or the relative inode number is >= sb_agblocks * sb_inopblock, and on
\* that failure the AG map and the inode cache of every allocation group are unchanged.
C12_RangeCheckedFirst ==
    [][(Constructed /\ call'.op = "get_inode" /\ OutOfRange(call'.absinum)) =>
           (result' = Err("Error") /\ ag' = ag)]_vars

\* C12 witness: an out-of-range get_inode has failed on a filesystem that had got an
\* inode of allocation group 1 before
C12_Witness ==
    /\ call.op = "get_inode"
    /\ call.absinum % (2 ^ XfsInumBits) >= XfsInumMax
    /\ call.absinum \div (2 ^ XfsInumBits) = 1
    /\ result = Err("Error")
    /\ 1 \in DOMAIN ag
    /\ Len(ag[1].cache) = 1

\* C13: get_allocation_group(ag_num) fails with an error when ag_num >= sb_agcount,
\* without constructing an AllocationGroup or adding to the AG map, so every key of
\* the AG map is below sb_agcount.
C13_AgKeysBelowCount ==
    /\ (call.op = "get_allocation_group" /\ call.agnum >= XfsSb.sb_agcount) => IsErr(result)
    /\ \A k \in DOMAIN ag : k < XfsSb.sb_agcount

\* C14: no XFS filesystem and no AllocationGroup is constructed over a superblock with
\* sb_inprogress != 0, a wrong magic, a block size that is zero or no multiple of 512,
\* or a wrong AGI magic.
C14_InprogressRejected ==
    \A k \in DOMAIN ag :
        /\ image.sbs[k + 1].sb_inprogress = 0
        /\ image.sbs[k + 1].sb_magicnum = XFS_SB_MAGIC
        /\ image.sbs[k + 1].sb_blocksize # 0
        /\ image.sbs[k + 1].sb_blocksize % 512 = 0
        /\ image.sbs[k + 1].agi_magicnum = XFS_AGI_MAGIC

(***************************************************************************)
(* INode.iterdir and INode.listdir on a shortform directory.  The image    *)
(* is inode 1, a shortform directory whose header and entries vary, inode  *)
(* 2, a block directory, and inode 3, a regular file.                      *)
(***************************************************************************)
MaxDirEntries == 2
MaxDirCount == 2

\* the entries a shortform directory can hold: an inode number outside the filesystem
\* and a file-type byte outside FILETYPES among them
SfEntries ==
    { DirEntry(n, i, 1) : n \in { <<"a">>, <<"b">> }, i \in {2, 3} }
    \cup { DirEntry(<<"a">>, 9, 1), DirEntry(<<"c">>, 3, 9) }

SfEntryLists == UNION { [1..n -> SfEntries] : n \in 0..MaxDirEntries }

DirImages ==
    { [ version |-> 5,
        has_ftype |-> has_ftype,
        sb_rootino |-> 1,
        dinode |-> << Dinode(S_IFDIR + 493, XFS_DINODE_FMT_LOCAL),
                      Dinode(S_IFDIR + 493, XFS_DINODE_FMT_EXTENTS),
                      Dinode(S_IFREG + 420, XFS_DINODE_FMT_EXTENTS) >>,
        dir |-> << [parent |-> parent, count |-> count, entries |-> entries],
                   [parent |-> 1, count |-> 2,
                    entries |-> << DirEntry(<<".">>, 2, 2), DirEntry(<<".", ".">>, 1, 2) >>],
                   NoDir >>,
        content |-> << Content(0, 1, <<"?">>), Content(0, 1, <<"?">>), Content(0, 1, <<"r">>) >> ] :
        has_ftype \in BOOLEAN, parent \in {1, 9}, count \in 0..MaxDirCount,
        entries \in SfEntryLists }

\* what the enumeration leaves alone
notdir == <<link_inode_memo, runlist, ag>>

\* the frame of a caller that drains node.iterdir(): out holds the items yielded so far
DirFrame(fn, node) == [fn |-> fn, node |-> node, out |-> <<>>]

\* d[k] = v on a dict kept as the sequence of its items in insertion order
DictSet(d, k, v) ==
    IF \E i \in 1..Len(d) : d[i].key = k
    THEN [i \in 1..Len(d) |-> IF d[i].key = k THEN [key |-> k, value |-> v] ELSE d[i]]
    ELSE Append(d, [key |-> k, value |-> v])

RECURSIVE DictOf(_, _)
\* {node.filename: node for node in ...}, the items taken in the order they are yielded
DictOf(d, items) ==
    IF items = <<>> THEN d
    ELSE DictOf(DictSet(d, Head(items).filename, Head(items)), Tail(items))

\* list(node.iterdir()) is called on the root or on an inode got by number
CallIterdir ==
    /\ stack = <<>>
    /\ \E node \in {Root} \cup { INode(i, NoName, 0, NoNode) : i \in DOMAIN image.dinode } :
         /\ call' = [op |-> "iterdir", node |-> node]
         /\ stack' = <<DirFrame("iterdir", node)>>
    /\ result' = NoResult
    /\ UNCHANGED <<image, dirlist, notdir>>

\* INode.listdir: `if not self._dirlist` sends a missing or empty memo to iterdir
CallListdir ==
    /\ stack = <<>>
    /\ \E node \in {Root} \cup { INode(i, NoName, 0, NoNode) : i \in DOMAIN image.dinode } :
         /\ call' = [op |-> "listdir", node |-> node]
         /\ IF node.inum \in DOMAIN dirlist /\ dirlist[node.inum] # <<>>
            THEN /\ result' = [dict |-> dirlist[node.inum]]
                 /\ stack' = <<>>
            ELSE /\ result' = NoResult
                 /\ stack' = <<DirFrame("listdir", node)>>
    /\ UNCHANGED <<image, dirlist, notdir>>

AtDir == stack # <<>> /\ "out" \in DOMAIN Top

\* the generator raises: before its first item, or where the next item would be made
IterdirRaise ==
    /\ AtDir
    /\ LET it == Iterdir(Top.node)
       IN /\ \/ IsErr(it)
             \/ /\ ~IsErr(it)
                /\ Len(Top.out) < Len(it.items)
                /\ IsErr(it.items[Len(Top.out) + 1])
          /\ result' = IF IsErr(it) THEN it ELSE it.items[Len(Top.out) + 1]
    /\ stack' = <<>>
    /\ UNCHANGED <<image, call, dirlist, notdir>>

\* the generator yields its next item
IterdirYield ==
    /\ AtDir
    /\ LET it == Iterdir(Top.node)
       IN /\ ~IsErr(it)
          /\ Len(Top.out) < Len(it.items)
          /\ ~IsErr(it.items[Len(Top.out) + 1])
          /\ stack' = <<[Top EXCEPT !.out = Append(@, it.items[Len(Top.out) + 1])]>>
    /\ UNCHANGED <<image, call, result, dirlist, notdir>>

\* the generator is exhausted: list() returns, listdir stores the dict and returns it
IterdirStop ==
    /\ AtDir
    /\ LET it == Iterdir(Top.node)
       IN /\ ~IsErr(it)
          /\ Len(Top.out) = Len(it.items)
    /\ IF Top.fn = "listdir"
       THEN /\ dirlist' = (Top.node.inum :> DictOf(<<>>, Top.out)) @@ dirlist
            /\ result' = [dict |-> DictOf(<<>>, Top.out)]
       ELSE /\ dirlist' = dirlist
            /\ result' = [items |-> Top.out]
    /\ stack' = <<>>
    /\ UNCHANGED <<image, call, notdir>>

InitDir ==
    /\ image \in DirImages
    /\ call = NoCall
    /\ stack = <<>>
    /\ result = NoResult
    /\ link_inode_memo = <<>>
    /\ runlist = NoList
    /\ dirlist = <<>>
    /\ ag = <<>>

NextDir == CallIterdir \/ CallListdir \/ IterdirRaise \/ IterdirYield \/ IterdirStop

SpecDir == InitDir /\ [][NextDir]_vars

\* the node is a shortform directory
IsShortform(node) ==
    /\ S_IFMT(image.dinode[node.inum].di_mode) = S_IFDIR
    /\ image.dinode[node.inum].di_format = XFS_DINODE_FMT_LOCAL

\* item k of the enumeration of dir is named and numbered as the claim says
ItemAsOnDisk(dir, hdr, k, item) ==
    IF k = 1 THEN item.filename = <<".">> /\ item.inum = dir.inum
    ELSE IF k = 2 THEN item.filename = <<".", ".">> /\ item.inum = hdr.parent
    ELSE /\ k - 2 <= hdr.count
         /\ k - 2 <= Len(hdr.entries)
         /\ item.filename = hdr.entries[k - 2].name
         /\ item.inum = hdr.entries[k - 2].inumber

RECURSIVE FirstOccurrences(_, _)
\* the names of a sequence of items, each at its first occurrence
FirstOccurrences(seen, items) ==
    IF items = <<>> THEN seen
    ELSE IF \E i \in 1..Len(seen) : seen[i] = Head(items).filename
    THEN FirstOccurrences(seen, Tail(items))
    ELSE FirstOccurrences(Append(seen, Head(items).filename), Tail(items))

\* C7: iterdir() on a shortform directory yields "." for the directory's own inode
\* number, then ".." for the header's parent, then the entries in on-disk order, and an
\* enumeration that finishes has yielded exactly header.count of them; the keys of
\* listdir() are in that order (a name yielded twice keeps its first place).
C7_ShortformOrder ==
    /\ (AtDir /\ IsShortform(Top.node)) =>
           \A k \in 1..Len(Top.out) :
               ItemAsOnDisk(Top.node, image.dir[Top.node.inum], k, Top.out[k])
    /\ (call.op = "iterdir" /\ "items" \in DOMAIN result /\ IsShortform(call.node)) =>
           /\ Len(result.items) = image.dir[call.node.inum].count + 2
           /\ \A k \in 1..Len(result.items) :
                  ItemAsOnDisk(call.node, image.dir[call.node.inum], k, result.items[k])
    /\ (call.op = "listdir" /\ "dict" \in DOMAIN result /\ IsShortform(call.node)) =>
           LET hdr == image.dir[call.node.inum]
               names == <<<<".">>, <<".", ".">>>> \o [k \in 1..hdr.count |-> hdr.entries[k].name]
           IN [i \in 1..Len(result.dict) |-> result.dict[i].key]
                  = FirstOccurrences(<<>>, [k \in 1..Len(names) |-> [filename |-> names[k]]])

\* listdir() has returned the four keys of a shortform directory of two entries
C7_Witness ==
    /\ call.op = "listdir"
    /\ "dict" \in DOMAIN result
    /\ IsShortform(call.node)
    /\ image.dir[call.node.inum].count = 2
    /\ Len(result.dict) = 4
    /\ result.dict[3].key = <<"b">>
    /\ result.dict[4].key = <<"a">>

(***************************************************************************)
(* INode.open.  The image is one inode: its di_format, its size, the       *)
(* extent records of its data fork, and what reading those records does    *)
(* (fork "ok", or the error INode._iter_blocks raises: Error for a B+tree  *)
(* node without its magic, EOFError for an extent list cut short).         *)
(***************************************************************************)
MaxFormat == 5

OpenExtentLists ==
    { <<>>,
      <<[offset |-> 0, block |-> 1, count |-> 1, flag |-> 0]>>,
      <<[offset |-> 1, block |-> 5, count |-> 1, flag |-> 0]>>,
      <<[offset |-> 0, block |-> 1, count |-> 1, flag |-> 0],
        [offset |-> 2, block |-> 5, count |-> 2, flag |-> 0]>> }

\* how reading the extent records of an inode of format f can end
ForkStates(f) ==
    IF f = XFS_DINODE_FMT_BTREE THEN {"ok", "Error", "EOFError"}
    ELSE IF f = XFS_DINODE_FMT_EXTENTS THEN {"ok", "EOFError"}
    ELSE {"ok"}

OpenImages ==
    UNION { { [block_size |-> 512, sb_agblklog |-> 2, sb_agblocks |-> 3,
               di_format |-> f, di_size |-> size, extents |-> es, fork |-> st] :
                size \in {0, 513, 1536}, es \in OpenExtentLists, st \in ForkStates(f) } :
            f \in 0..MaxFormat }

\* what INode.open leaves alone
notopen == <<stack, link_inode_memo, dirlist, ag>>

\* INode._iter_blocks drained by the loop of dataruns: the records, or the error raised
IterBlocks ==
    IF image.di_format \in {XFS_DINODE_FMT_EXTENTS, XFS_DINODE_FMT_BTREE}
    THEN IF image.fork = "ok" THEN [items |-> image.extents] ELSE Err(image.fork)
    ELSE [items |-> <<>>]

RECURSIVE DatarunsLoop(_, _, _)
\* dataruns: the for loop from the extents left, and the trailing hole after it
DatarunsLoop(es, runs, run_offset) ==
    IF es = <<>> THEN runs \o TrailingHole(run_offset, ExpectedRuns)
    ELSE DatarunsLoop(Tail(es), runs \o ExtentRuns(Head(es), run_offset),
                      ExtentOffset(Head(es), run_offset))

\* INode.dataruns called with the memo memo: the memo afterwards and the list or error
Dataruns(memo) ==
    IF memo # NoList /\ memo.runs # <<>> THEN [memo |-> memo, ret |-> memo]
    ELSE IF IsErr(IterBlocks) THEN [memo |-> memo, ret |-> IterBlocks]
    ELSE [memo |-> [runs |-> DatarunsLoop(IterBlocks.items, <<>>, 0)],
          ret |-> [runs |-> DatarunsLoop(IterBlocks.items, <<>>, 0)]]

\* an open that treats a device inode like an inline one
OpenDevAsLocal(memo) ==
    IF image.di_format \in {XFS_DINODE_FMT_LOCAL, XFS_DINODE_FMT_DEV}
    THEN [memo |-> memo, ret |-> [stream |-> "datafork", size |-> image.di_size]]
    ELSE IF image.di_format \in {XFS_DINODE_FMT_EXTENTS, XFS_DINODE_FMT_BTREE}
    THEN [memo |-> Dataruns(memo).memo,
          ret |-> IF IsErr(Dataruns(memo).ret) THEN Dataruns(memo).ret
                  ELSE [stream |-> "runlist", runs |-> Dataruns(memo).ret.runs,
                        size |-> image.di_size]]
    ELSE [memo |-> memo, ret |-> Err("UnsupportedDataforkException")]

\* INode.open: the memo of dataruns afterwards and the stream returned or error raised
Open(memo) ==
    IF image.di_format = XFS_DINODE_FMT_LOCAL
    THEN [memo |-> memo, ret |-> [stream |-> "datafork", size |-> image.di_size]]
    ELSE IF image.di_format \in {XFS_DINODE_FMT_EXTENTS, XFS_DINODE_FMT_BTREE}
    THEN [memo |-> Dataruns(memo).memo,
          ret |-> IF IsErr(Dataruns(memo).ret) THEN Dataruns(memo).ret
                  ELSE [stream |-> "runlist", runs |-> Dataruns(memo).ret.runs,
                        size |-> image.di_size]]
    ELSE IF image.di_format = XFS_DINODE_FMT_DEV
    THEN [memo |-> memo, ret |-> Err("UnsupportedDataforkException")]
    ELSE [memo |-> memo, ret |-> Err("UnsupportedDataforkException")]

\* inode.open()
CallOpen ==
    /\ call' = [op |-> "open"]
    /\ runlist' = Open(runlist).memo
    /\ result' = Open(runlist).ret
    /\ UNCHANGED <<image, notopen>>

\* inode.dataruns() called directly: it leaves its memo to a later open
CallDatarunsOf ==
    /\ call' = [op |-> "dataruns"]
    /\ runlist' = Dataruns(runlist).memo
    /\ result' = Dataruns(runlist).ret
    /\ UNCHANGED <<image, notopen>>

InitOpen ==
    /\ image \in OpenImages
    /\ call = NoCall
    /\ stack = <<>>
    /\ result = NoResult
    /\ link_inode_memo = <<>>
    /\ runlist = NoList
    /\ dirlist = <<>>
    /\ ag = <<>>

NextOpen == CallOpen \/ CallDatarunsOf

SpecOpen == InitOpen /\ [][NextOpen]_vars

Opened == call.op = "open" /\ "stream" \in DOMAIN result

\* C11 as stated: open() returns a stream exactly when di_format is LOCAL, EXTENTS or
\* BTREE, and fails with UnsupportedDatafork for DEV and every other di_format.
C11_StreamIffFormat ==
    call.op = "open" =>
        /\ Opened <=> image.di_format \in
               {XFS_DINODE_FMT_LOCAL, XFS_DINODE_FMT_EXTENTS, XFS_DINODE_FMT_BTREE}
        /\ ~Opened => result = Err("UnsupportedDataforkException")

\* C11 amended: open() fails with UnsupportedDatafork exactly when di_format is not
\* LOCAL, EXTENTS or BTREE; for LOCAL it returns the data-fork slice of length size; for
\* EXTENTS and BTREE it returns a runlist stream of length size over dataruns() when the
\* extent records can be read, and otherwise fails with the error of reading them.
C11_OpenByFormat ==
    call.op = "open" =>
        /\ result = Err("UnsupportedDataforkException") <=>
               image.di_format \notin
                   {XFS_DINODE_FMT_LOCAL, XFS_DINODE_FMT_EXTENTS, XFS_DINODE_FMT_BTREE}
        /\ image.di_format = XFS_DINODE_FMT_LOCAL =>
               result = [stream |-> "datafork", size |-> image.di_size]
        /\ image.di_format \in {XFS_DINODE_FMT_EXTENTS, XFS_DINODE_FMT_BTREE} =>
               IF image.fork = "ok"
               THEN /\ Opened
                    /\ result.stream = "runlist"
                    /\ result.size = image.di_size
                    /\ result.runs = runlist.runs
               ELSE result = Err(image.fork)

\* C11 witness: a B+tree inode of three blocks with a hole between its two extents is opened
C11_Witness ==
    /\ Opened
    /\ image.di_format = XFS_DINODE_FMT_BTREE
    /\ image.di_size = 1536
    /\ Len(image.extents) = 2
    /\ Len(result.runs) = 3
    /\ result.runs[2].hole

(***************************************************************************)
(* _parse_ts and the *_ns properties of INode.  Python integers are        *)
(* unbounded; a natural number is kept as the sequence of its base-1000    *)
(* digits, least significant first, without leading zeros, and the result  *)
(* of _parse_ts as a sign and a magnitude.                                 *)
(***************************************************************************)
RECURSIVE BigNorm(_)
BigNorm(x) ==
    IF x = <<>> THEN <<>>
    ELSE IF x[Len(x)] = 0 THEN BigNorm(SubSeq(x, 1, Len(x) - 1))
    ELSE x

RECURSIVE BigOfInt(_)
BigOfInt(n) == IF n = 0 THEN <<>> ELSE <<n % 1000>> \o BigOfInt(n \div 1000)

BigDigit(x, i) == IF i <= Len(x) THEN x[i] ELSE 0

RECURSIVE BigAddFrom(_, _, _, _)
BigAddFrom(a, b, i, carry) ==
    IF i > Len(a) /\ i > Len(b)
    THEN (IF carry = 0 THEN <<>> ELSE <<carry>>)
    ELSE <<(BigDigit(a, i) + BigDigit(b, i) + carry) % 1000>>
         \o BigAddFrom(a, b, i + 1, (BigDigit(a, i) + BigDigit(b, i) + carry) \div 1000)

BigAdd(a, b) == BigAddFrom(a, b, 1, 0)

RECURSIVE BigSubFrom(_, _, _, _)
BigSubFrom(a, b, i, borrow) ==
    IF i > Len(a) THEN <<>>
    ELSE LET d == BigDigit(a, i) - BigDigit(b, i) - borrow
         IN <<(d + 1000) % 1000>> \o BigSubFrom(a, b, i + 1, IF d < 0 THEN 1 ELSE 0)

\* a - b for a >= b
BigSub(a, b) == BigNorm(BigSubFrom(a, b, 1, 0))

RECURSIVE BigLessFrom(_, _, _)
BigLessFrom(a, b, i) ==
    IF i = 0 THEN FALSE
    ELSE IF a[i] # b[i] THEN a[i] < b[i]
    ELSE BigLessFrom(a, b, i - 1)

BigLess(a, b) ==
    IF Len(a) # Len(b) THEN Len(a) < Len(b) ELSE BigLessFrom(a, b, Len(a))

RECURSIVE BigMulFrom(_, _, _, _)
BigMulFrom(a, m, i, carry) ==
    IF i > Len(a) THEN BigOfInt(carry)
    ELSE <<(a[i] * m + carry) % 1000>> \o BigMulFrom(a, m, i + 1, (a[i] * m + carry) \div 1000)

\* a * m for a small m
BigMul(a, m) == BigNorm(BigMulFrom(a, m, 1, 0))

RECURSIVE BigDivFrom(_, _, _, _)
BigDivFrom(a, m, i, rem) ==
    IF i = 0 THEN <<>>
    ELSE BigDivFrom(a, m, i - 1, (rem * 1000 + a[i]) % m) \o <<(rem * 1000 + a[i]) \div m>>

\* a // m for a small m
BigDiv(a, m) == BigNorm(BigDivFrom(a, m, Len(a), 0))

\* a * 10^9, a // 10^9 and a % 10^9: three digits of base 1000
BigMulBillion(a) == IF a = <<>> THEN <<>> ELSE <<0, 0, 0>> \o a

BigDivBillion(a) == SubSeq(a, 4, Len(a))

BigModBillion(a) == BigNorm(SubSeq(a, 1, IF Len(a) < 3 THEN Len(a) ELSE 3))

\* a >> 32 and a & 0xFFFFFFFF
BigShr32(a) == BigDiv(BigDiv(a, 65536), 65536)

BigAnd32(a) == BigSub(a, BigMul(BigMul(BigShr32(a), 65536), 65536))

\* 1 << 31
BigTwoTo31 == <<648, 483, 147, 2>>

\* a signed integer: -mag when neg (mag # 0), mag otherwise
Signed(neg, mag) == [neg |-> neg /\ mag # <<>>, mag |-> mag]

\* a - b for naturals a, b
SignedSub(a, b) == IF BigLess(a, b) THEN Signed(TRUE, BigSub(b, a)) ELSE Signed(FALSE, BigSub(a, b))

\* s * 10^9 + n for a signed s and a natural n
SignedMulAdd(s, n) ==
    IF s.neg THEN SignedSub(n, BigMulBillion(s.mag))
    ELSE Signed(FALSE, BigAdd(BigMulBillion(s.mag), n))

SignedLess(s, t) ==
    IF s.neg /\ ~t.neg THEN TRUE
    ELSE IF ~s.neg /\ t.neg THEN FALSE
    ELSE IF s.neg THEN BigLess(t.mag, s.mag)
    ELSE BigLess(s.mag, t.mag)

\* a _parse_ts that decodes bigtime without the shift of the epoch
ParseTsUnshifted(ts, is_bigtime) ==
    IF is_bigtime
    THEN SignedMulAdd(Signed(FALSE, BigDivBillion(ts)), BigModBillion(ts))
    ELSE SignedMulAdd(Signed(FALSE, BigShr32(ts)), BigAnd32(ts))

\* _parse_ts
ParseTs(ts, is_bigtime) ==
    IF is_bigtime
    THEN SignedMulAdd(SignedSub(BigDivBillion(ts), BigTwoTo31), BigModBillion(ts))
    ELSE SignedMulAdd(Signed(FALSE, BigShr32(ts)), BigAnd32(ts))

XFS_DIFLAG2_BIGTIME_BIT == 3

\* INode._has_bigtime
HasBigtime ==
    image.di_version >= 3 /\ (image.di_flags2 \div (2 ^ XFS_DIFLAG2_BIGTIME_BIT)) % 2 # 0

\* instants at or after 1970-01-01 that both encodings can hold: seconds, nanoseconds
Instants ==
    [sec : {0, 1, 1680858909, 2147483647}, nsec : {0, 223364005, 999999999}]

\* the bigtime and the legacy encoding of an instant
EncodeBigtime(inst) ==
    BigAdd(BigMulBillion(BigAdd(BigOfInt(inst.sec), BigTwoTo31)), BigOfInt(inst.nsec))

EncodeLegacy(inst) ==
    BigAdd(BigMul(BigMul(BigOfInt(inst.sec), 65536), 65536), BigOfInt(inst.nsec))

\* raw 64-bit timestamp fields: 0, 1, 10^9 - 1, 10^9, 2^32 - 1, 2^32, the bigtime epoch
\* and its neighbours, 2^64 - 1, and the encodings of the instants
TsValues ==
    { <<>>, <<1>>, <<999, 999, 999>>, <<0, 0, 0, 1>>, <<295, 967, 294, 4>>, <<296, 967, 294, 4>>,
      <<999, 999, 999, 647, 483, 147, 2>>, <<0, 0, 0, 648, 483, 147, 2>>,
      <<1, 0, 0, 648, 483, 147, 2>>, <<615, 551, 709, 73, 744, 446, 18>> }
    \cup { EncodeBigtime(i) : i \in Instants }
    \cup { EncodeLegacy(i) : i \in Instants }

TsImages ==
    [di_version : {2, 3}, di_flags2 : {0, 8, 16, 24}, di_atime : TsValues, di_mtime : TsValues]

\* what the timestamp properties leave alone
notts == <<stack, link_inode_memo, runlist, dirlist, ag>>

\* INode.atime_ns
CallAtimeNs ==
    /\ call' = [op |-> "atime_ns", raw |-> image.di_atime]
    /\ result' = [ns |-> ParseTs(image.di_atime, HasBigtime)]
    /\ UNCHANGED <<image, notts>>

\* INode.mtime_ns
CallMtimeNs ==
    /\ call' = [op |-> "mtime_ns", raw |-> image.di_mtime]
    /\ result' = [ns |-> ParseTs(image.di_mtime, HasBigtime)]
    /\ UNCHANGED <<image, notts>>

InitTs ==
    /\ image \in TsImages
    /\ call = NoCall
    /\ stack = <<>>
    /\ result = NoResult
    /\ link_inode_memo = <<>>
    /\ runlist = NoList
    /\ dirlist = <<>>
    /\ ag = <<>>

NextTs == CallAtimeNs \/ CallMtimeNs

SpecTs == InitTs /\ [][NextTs]_vars

\* 2^31 * 10^9, the raw bigtime value of 1970-01-01
BigtimeEpoch == <<0, 0, 0, 648, 483, 147, 2>>

\* the nanoseconds since 1970-01-01 of an instant
UnixNs(inst) == Signed(FALSE, BigAdd(BigMulBillion(BigOfInt(inst.sec)), BigOfInt(inst.nsec)))

\* C15: with bigtime the raw value t decodes to (t div 10^9 - 2^31) * 10^9 + t mod 10^9,
\* strictly increasing in t; for every instant at or after 1970-01-01 that both encodings
\* hold, decoding its bigtime encoding and decoding its legacy encoding give the same
\* Unix-epoch nanosecond value.
C15_BigtimeMonotonicAgrees ==
    "ns" \in DOMAIN result =>
        /\ HasBigtime =>
               /\ result.ns = SignedSub(call.raw, BigtimeEpoch)
               /\ \A t \in {image.di_atime, image.di_mtime} :
                      /\ BigLess(call.raw, t) => SignedLess(result.ns, ParseTs(t, TRUE))
                      /\ BigLess(t, call.raw) => SignedLess(ParseTs(t, TRUE), result.ns)
        /\ \A i \in Instants :
               /\ (HasBigtime /\ call.raw = EncodeBigtime(i)) =>
                      (result.ns = UnixNs(i) /\ result.ns = ParseTs(EncodeLegacy(i), FALSE))
               /\ (~HasBigtime /\ call.raw = EncodeLegacy(i)) =>
                      (result.ns = UnixNs(i) /\ result.ns = ParseTs(EncodeBigtime(i), TRUE))

\* C15 witness: the bigtime creation time of the test image, 2023-04-07 09:15:09.223364005
C15_Witness ==
    /\ call.op = "mtime_ns"
    /\ HasBigtime
    /\ call.raw = EncodeBigtime([sec |-> 1680858909, nsec |-> 223364005])
    /\ result.ns = Signed(FALSE, <<5, 364, 223, 909, 858, 680, 1>>)
    /\ BigLess(image.di_atime, image.di_mtime)

(***************************************************************************)
(* The lru_cache around AllocationGroup.get_inode.  The image is           *)
(* allocation group 0 with three inodes: 1 a directory, 2 a symlink (or a  *)
(* regular file), 3 a regular file whose dinode may lack its magic.  A     *)
(* caller gets an inode, reads its properties (which fill the memos of     *)
(* the object, shared with the cache) and gets the next.                   *)
(***************************************************************************)
CacheImages ==
    { [ sbs |-> <<Superblock(XFS_SB_MAGIC, 2, 2, 1)>>,
        nomagic |-> nomagic,
        version |-> 5,
        dinode |-> << [di_mode |-> S_IFDIR + 493, di_format |-> XFS_DINODE_FMT_LOCAL,
                       di_size |-> 6, di_nblocks |-> 0],
                      [di_mode |-> mode2, di_format |-> XFS_DINODE_FMT_LOCAL,
                       di_size |-> 1, di_nblocks |-> 0],
                      [di_mode |-> S_IFREG + 420, di_format |-> XFS_DINODE_FMT_EXTENTS,
                       di_size |-> 513, di_nblocks |-> 1] >>,
        content |-> << Content(0, 1, <<"?">>), Content(0, 1, <<"f">>), Content(0, 1, <<"r">>) >>,
        runs |-> << <<>>, <<Hole(1)>>, <<Backed(1, 1), Hole(1)>> >> ] :
        nomagic \in { {}, {<<0, 3>>} }, mode2 \in { S_IFLNK + 511, S_IFREG + 420 } }

\* the arguments get_inode is called with: by number, or as a directory entry with a hint
CacheArgs ==
    { [inum |-> i, filename |-> h.filename, filetype |-> h.filetype, parent |-> h.parent,
       lazy |-> l] :
        i \in 2..3,
        h \in { [filename |-> NoName, filetype |-> 0, parent |-> NoNode],
                [filename |-> <<"a">>, filetype |-> S_IFREG,
                 parent |-> INode(1, NoName, 0, NoNode)] },
        l \in BOOLEAN }

\* what the cache leaves alone
notcache == <<stack, link_inode_memo, runlist, dirlist>>

\* INode.inode: the dinode, or the error of _read_inode
ObjInode(o) ==
    IF <<o.agnum, o.relative_inum>> \in image.nomagic THEN Err("Error")
    ELSE image.dinode[o.relative_inum]

\* INode.filetype, INode.size, INode.nblocks of the object o as it is now
ObjFiletype(o) ==
    IF o.filetype # 0 THEN [val |-> o.filetype]
    ELSE IF IsErr(ObjInode(o)) THEN ObjInode(o)
    ELSE [val |-> S_IFMT(ObjInode(o).di_mode)]

ObjSize(o) == IF IsErr(ObjInode(o)) THEN ObjInode(o) ELSE [val |-> ObjInode(o).di_size]

ObjNblocks(o) == IF IsErr(ObjInode(o)) THEN ObjInode(o) ELSE [val |-> ObjInode(o).di_nblocks]

\* INode.dataruns of o: its memo unless that is None or empty
ObjDataruns(o) ==
    IF o._runlist # NoList /\ o._runlist.runs # <<>> THEN o._runlist
    ELSE IF IsErr(ObjInode(o)) THEN ObjInode(o)
    ELSE [runs |-> image.runs[o.relative_inum]]

\* INode.link of o: its memo unless that is None or empty
ObjLink(o) ==
    IF IsErr(ObjFiletype(o)) THEN ObjFiletype(o)
    ELSE IF ObjFiletype(o).val # S_IFLNK THEN Err("NotASymlinkError")
    ELSE IF o._link # NoList /\ o._link.val # <<>> THEN o._link
    ELSE IF IsErr(ObjInode(o)) THEN ObjInode(o)
    ELSE Link(o)

\* o after its properties filetype, size and nblocks were read
AfterMeta(o) ==
    [o EXCEPT !._inode = @ \/ ~IsErr(ObjInode(o)),
              !.filetype = IF IsErr(ObjFiletype(o)) THEN @ ELSE ObjFiletype(o).val]

\* o after dataruns() and link were read
AfterData(o) ==
    [o EXCEPT !._inode = @ \/ ~IsErr(ObjInode(o)),
              !.filetype = IF IsErr(ObjFiletype(o)) THEN @ ELSE ObjFiletype(o).val,
              !._runlist = IF IsErr(ObjDataruns(o)) THEN @ ELSE ObjDataruns(o),
              !._link = IF IsErr(ObjLink(o)) THEN @ ELSE ObjLink(o)]

\* the cache when the object under key, if it holds one, has become o
CacheWith(cache, key, o) ==
    [i \in 1..Len(cache) |-> IF cache[i].key = key THEN [cache[i] EXCEPT !.value = o] ELSE cache[i]]

Holding == call.op = "ag.get_inode" /\ ~IsErr(result) /\ "obj" \in DOMAIN result

\* ag.get_inode(inum, filename, filetype, parent=parent, lazy=lazy)
CallAgGetInode ==
    /\ \E a \in CacheArgs :
         LET got == AgGetInode(ag[0], a.inum, a.filename, a.filetype, a.parent, a.lazy)
         IN /\ call' = [op |-> "ag.get_inode", args |-> a]
            /\ ag' = [ag EXCEPT ![0] = got.group]
            /\ result' = IF IsErr(got.ret) THEN got.ret ELSE [obj |-> got.ret]
    /\ UNCHANGED <<image, notcache>>

\* the caller reads filetype, size and nblocks of the inode it holds
ReadMeta ==
    /\ Holding
    /\ result' = [obj |-> AfterMeta(result.obj)]
    /\ ag' = [ag EXCEPT ![0].cache =
                 CacheWith(@, CacheKey(call.args.inum, call.args.filename, call.args.filetype,
                                       call.args.parent, call.args.lazy), AfterMeta(result.obj))]
    /\ UNCHANGED <<image, call, notcache>>

\* the caller reads dataruns() and link of the inode it holds
ReadData ==
    /\ Holding
    /\ result' = [obj |-> AfterData(result.obj)]
    /\ ag' = [ag EXCEPT ![0].cache =
                 CacheWith(@, CacheKey(call.args.inum, call.args.filename, call.args.filetype,
                                       call.args.parent, call.args.lazy), AfterData(result.obj))]
    /\ UNCHANGED <<image, call, notcache>>

InitCache ==
    /\ image \in CacheImages
    /\ call = NoCall
    /\ stack = <<>>
    /\ result = NoResult
    /\ link_inode_memo = <<>>
    /\ runlist = NoList
    /\ dirlist = <<>>
    /\ ag = (0 :> AllocationGroup(0))

NextCache == CallAgGetInode \/ ReadMeta \/ ReadData

SpecCache == InitCache /\ [][NextCache]_vars

\* the observable values of an inode object
Observables(o) ==
    [inum |-> o.inum, filename |-> o.filename, filetype |-> ObjFiletype(o), size |-> ObjSize(o),
     nblocks |-> ObjNblocks(o), dataruns |-> ObjDataruns(o), link |-> ObjLink(o)]

\* C16: the inode a cached AllocationGroup.get_inode returns (on a hit, a miss or after
\* an eviction) has the same observable values (inum, filename, filetype, size, nblocks,
\* dataruns, link) as the inode an allocation group without cache returns for the same
\* arguments, and it fails when that one fails.
C16_CacheTransparent ==
    call.op = "ag.get_inode" =>
        LET a == call.args
            plain == UncachedGetInode([ag[0] EXCEPT !.cache = <<>>], a.inum, a.filename,
                                      a.filetype, a.parent, a.lazy)
        IN IF IsErr(plain) THEN result = plain
           ELSE /\ Holding
                /\ Observables(result.obj) = Observables(plain)

\* C16 witness: the held inode came from the cache with its memos filled, and the cache
\* is full with another entry in front of it
C16_Witness ==
    /\ Holding
    /\ call.args.inum = 3
    /\ call.args.filetype = 0
    /\ result.obj._runlist # NoList
    /\ result.obj.filetype = S_IFREG
    /\ Len(ag[0].cache) = CacheSize
    /\ ag[0].cache[Len(ag[0].cache)].value = result.obj
    /\ ag[0].cache[1].value._inode
    /\ ag[0].cache[1].value.relative_inum = 2

(***************************************************************************)
(* parse_fsblock.  The record is 16 bytes; a Python integer is kept as     *)
(* the sequence of its bits, least significant first, without leading      *)
(* zeros, so that no width is assumed.                                     *)
(***************************************************************************)
RECURSIVE BitNorm(_)
BitNorm(x) ==
    IF x = <<>> THEN <<>>
    ELSE IF x[Len(x)] = 0 THEN BitNorm(SubSeq(x, 1, Len(x) - 1))
    ELSE x

\* the eight bits of a byte, least significant first
BitsOfByte(b) == [k \in 1..8 |-> (b \div (2 ^ (k - 1))) % 2]

RECURSIVE BitsBigEndian(_)
\* the unsigned integer whose big-endian bytes are s
BitsBigEndian(s) ==
    IF s = <<>> THEN <<>> ELSE BitsBigEndian(Tail(s)) \o BitsOfByte(Head(s))

\* c_xfs.uint64[2](s): two big-endian words
ReadUint64Pair(s) ==
    <<BitNorm(BitsBigEndian(SubSeq(s, 1, 8))), BitNorm(BitsBigEndian(SubSeq(s, 9, 16)))>>

\* x >> n, x << n, x & ((1 << n) - 1), x | y
BitShr(x, n) == SubSeq(x, n + 1, Len(x))

BitShl(x, n) == IF x = <<>> THEN <<>> ELSE [k \in 1..n |-> 0] \o x

BitLow(x, n) == BitNorm(SubSeq(x, 1, IF Len(x) < n THEN Len(x) ELSE n))

BitOr(x, y) ==
    BitNorm([k \in 1..(IF Len(x) > Len(y) THEN Len(x) ELSE Len(y)) |->
                IF (k <= Len(x) /\ x[k] = 1) \/ (k <= Len(y) /\ y[k] = 1) THEN 1 ELSE 0])

\* a parse_fsblock that shifts the first word without masking the flag off
ParseFsblockUnmasked(s) ==
    LET l0 == ReadUint64Pair(s)[1]
        l1 == ReadUint64Pair(s)[2]
    IN [offset |-> BitShr(l0, 9),
        block |-> BitOr(BitShl(BitLow(l0, 9), 43), BitShr(l1, 21)),
        count |-> BitLow(l1, 21),
        flag |-> BitShr(l0, 63)]

\* parse_fsblock: (offset, block, count, flag)
ParseFsblock(s) ==
    LET l0 == ReadUint64Pair(s)[1]
        l1 == ReadUint64Pair(s)[2]
    IN [offset |-> BitShr(BitLow(l0, 63), 9),
        block |-> BitOr(BitShl(BitLow(l0, 9), 43), BitShr(l1, 21)),
        count |-> BitLow(l1, 21),
        flag |-> BitShr(l0, 63)]

\* the eight big-endian bytes of the word whose set bits are bits
BytesOfBitSet(bits) ==
    [i \in 1..8 |->
        LET bit(k) == IF (8 * (8 - i) + k) \in bits THEN 2 ^ k ELSE 0
        IN bit(0) + bit(1) + bit(2) + bit(3) + bit(4) + bit(5) + bit(6) + bit(7)]

\* first words: every combination of the bits next to a field boundary, and all ones
FirstWords == { BytesOfBitSet(b) : b \in (SUBSET {0, 8, 9, 62, 63}) \cup {0..63} }

\* second words likewise
SecondWords == { BytesOfBitSet(b) : b \in (SUBSET {0, 20, 21, 63}) \cup {0..63} }

FsblockImages == { [s |-> w0 \o w1] : w0 \in FirstWords, w1 \in SecondWords }

\* parse_fsblock(s) on the 16 bytes of the record
CallParseFsblock ==
    /\ call' = [op |-> "parse_fsblock", s |-> image.s]
    /\ result' = ParseFsblock(image.s)
    /\ UNCHANGED <<image, stack, link_inode_memo, runlist, dirlist, ag>>

\* _iter_blocks hands the tuple on and goes to the next record
DropFsblock ==
    /\ call.op = "parse_fsblock"
    /\ call' = NoCall
    /\ result' = NoResult
    /\ UNCHANGED <<image, stack, link_inode_memo, runlist, dirlist, ag>>

InitFsblock ==
    /\ image \in FsblockImages
    /\ call = NoCall
    /\ stack = <<>>
    /\ result = NoResult
    /\ link_inode_memo = <<>>
    /\ runlist = NoList
    /\ dirlist = <<>>
    /\ ag = <<>>

NextFsblock == CallParseFsblock \/ DropFsblock

SpecFsblock == InitFsblock /\ [][NextFsblock]_vars

\* C17: for the record read as big-endian words l0, l1, parse_fsblock returns
\* flag = (l0 >> 63) & 1, offset = (l0 >> 9) & (2^54 - 1),
\* block = ((l0 & 0x1FF) << 43) | (l1 >> 21), count = l1 & (2^21 - 1); so flag is 0 or 1,
\* offset < 2^54, block < 2^52, count < 2^21, and the 16 bytes alone decide the result.
C17_FsblockFields ==
    call.op = "parse_fsblock" =>
        LET l0 == BitNorm(BitsBigEndian(SubSeq(call.s, 1, 8)))
            l1 == BitNorm(BitsBigEndian(SubSeq(call.s, 9, 16)))
        IN /\ result.flag = BitLow(BitShr(l0, 63), 1)
           /\ result.offset = BitLow(BitShr(l0, 9), 54)
           /\ result.block = BitOr(BitShl(BitLow(l0, 9), 43), BitShr(l1, 21))
           /\ result.count = BitLow(l1, 21)
           /\ Len(result.flag) <= 1
           /\ Len(result.offset) <= 54
           /\ Len(result.block) <= 52
           /\ Len(result.count) <= 21
           /\ (result.flag = <<1>>) <=> (call.s[1] >= 128)
           /\ (result.count # <<>> /\ result.count[1] = 1) <=> (call.s[16] % 2 = 1)
           /\ (Len(result.block) = 52) <=> (call.s[7] % 2 = 1)
           /\ (Len(result.offset) = 54) <=> ((call.s[1] \div 64) % 2 = 1)
           /\ result = ParseFsblock(image.s)

\* C17 witness: a record of all ones: every field is full
C17_Witness ==
    /\ call.op = "parse_fsblock"
    /\ \A i \in 1..16 : call.s[i] = 255
    /\ result.flag = <<1>>
    /\ result.offset = [k \in 1..54 |-> 1]
    /\ result.block = [k \in 1..52 |-> 1]
    /\ result.count = [k \in 1..21 |-> 1]

(***************************************************************************)
(* INode.iterdir on a directory kept in blocks (EXTENTS/BTREE), byte by    *)
(* byte.  A block is the sequence of its bytes; offsets count from 0 as     *)
(* block.tell() does.  Block sizes are scaled down: 64 bytes on version 4  *)
(* (16 of header), 128 on version 5 (64 of header).                         *)
(***************************************************************************)
XFS_DIR2_BLOCK_MAGIC == 1480864322
XFS_DIR2_DATA_MAGIC == 1480864324
XFS_DIR3_BLOCK_MAGIC == 1480868403
XFS_DIR3_DATA_MAGIC == 1480868915

\* the most records written in front of the free space of the first block
MaxBlockRecords == 2

\* s[c : c + n]: a slice stops at the end of s
BytesAt(s, c, n) == SubSeq(s, c + 1, IF c + n > Len(s) THEN Len(s) ELSE c + n)

\* big-endian unsigned integers
U16Of(s) == s[1] * 256 + s[2]

U32Of(s) == ((s[1] * 256 + s[2]) * 256 + s[3]) * 256 + s[4]

U16(v) == <<v \div 256, v % 256>>

U32(v) == <<v \div 16777216, (v \div 65536) % 256, (v \div 256) % 256, v % 256>>

Zeros(n) == [k \in 1..n |-> 0]

\* bytes.decode of a name, byte by byte
Chr(b) ==
    CASE b = 97 -> "a"
      [] b = 98 -> "b"
      [] b = 99 -> "c"
      [] b = 0 -> "NUL"
      [] OTHER -> "?"

DecodeName(s) == [k \in 1..Len(s) |-> Chr(s[k])]

\* records as mkfs and the kernel lay them out: an entry of 16 bytes with its tag in
\* the last two, the 8 bytes that start an unused record, free space under one record
EncEntry(inumber, name, ftype, has_ftype, at) ==
    LET head == Zeros(7) \o <<inumber, Len(name)>> \o name
                    \o (IF has_ftype THEN <<ftype>> ELSE <<>>)
    IN head \o Zeros(14 - Len(head)) \o U16(at)

EncUnused(length, at) == <<255, 255>> \o U16(length) \o Zeros(2) \o U16(at)

EncFree(length, at) ==
    IF length < 8 THEN Zeros(length)
    ELSE <<255, 255>> \o U16(length) \o Zeros(length - 6) \o U16(at)

EncRecord(r, has_ftype, at) ==
    IF r.kind = "entry" THEN EncEntry(r.inumber, r.name, r.ftype, has_ftype, at)
    ELSE EncUnused(r.length, at)

RECURSIVE EncRecords(_, _, _)
EncRecords(recs, has_ftype, at) ==
    IF recs = <<>> THEN <<>>
    ELSE LET head == EncRecord(Head(recs), has_ftype, at)
         IN head \o EncRecords(Tail(recs), has_ftype, at + Len(head))

\* len(xfs_dir3_data_hdr) and len(xfs_dir2_data_hdr)
DataHdrLen(version) == IF version = 5 THEN 64 ELSE 16

ScaledBlockSize(version) == IF version = 5 THEN 128 ELSE 64

\* a directory block: header, records, free space, then count leaf entries and the
\* tail; count -1 is a block of a multi-block directory, free to its end
DirBlock(version, has_ftype, magic, recs, count) ==
    LET area == (IF count < 0 THEN ScaledBlockSize(version)
                 ELSE ScaledBlockSize(version) - 8 - 8 * count) - DataHdrLen(version)
        written == EncRecords(recs, has_ftype, DataHdrLen(version))
        body == SubSeq(written, 1, IF Len(written) > area THEN area ELSE Len(written))
    IN U32(magic) \o Zeros(DataHdrLen(version) - 4)
       \o body
       \o EncFree(area - Len(body), DataHdrLen(version) + Len(body))
       \o (IF count < 0 THEN <<>>
           ELSE [k \in 1..(8 * count) |-> IF k % 8 = 0 THEN 2 ELSE 0] \o U32(count) \o U32(0))

\* records: sound entries, an entry for an inode outside the filesystem, one with a
\* file-type byte outside FILETYPES, and unused records of several lengths
BlockRecords ==
    { [kind |-> "entry", inumber |-> 2, name |-> <<97>>, ftype |-> 1],
      [kind |-> "entry", inumber |-> 9, name |-> <<98>>, ftype |-> 1],
      [kind |-> "entry", inumber |-> 3, name |-> <<97, 98>>, ftype |-> 9] }
    \cup { [kind |-> "unused", length |-> l] : l \in {0, 2, 7, 8, 16} }

BlockRecordLists == UNION { [1..n -> BlockRecords] : n \in 0..MaxBlockRecords }

BlockMagic(version) == IF version = 5 THEN XFS_DIR3_BLOCK_MAGIC ELSE XFS_DIR2_BLOCK_MAGIC

DataMagic(version) == IF version = 5 THEN XFS_DIR3_DATA_MAGIC ELSE XFS_DIR2_DATA_MAGIC

\* the first blocks of a directory: sound magics over every record list, and blocks
\* whose magic is none of the four or the other version's
FirstBlocks(version, has_ftype) ==
    { DirBlock(version, has_ftype, magic, recs, count) :
        magic \in {BlockMagic(version), DataMagic(version)},
        recs \in BlockRecordLists, count \in {-1, 1} }
    \cup { DirBlock(version, has_ftype, magic,
                    <<[kind |-> "entry", inumber |-> 2, name |-> <<97>>, ftype |-> 1]>>, 1) :
             magic \in {0, BlockMagic(9 - version)} }

\* the second blocks: one entry and two leaf entries, under a sound magic or none
SecondBlocks(version, has_ftype) ==
    { DirBlock(version, has_ftype, magic,
               <<[kind |-> "entry", inumber |-> 3, name |-> <<99>>, ftype |-> 1]>>, 2) :
        magic \in {0, BlockMagic(version)} }

\* a root directory of two blocks in one or two extents, and a regular file
BlockDirImage(version, has_ftype, nextents, b1, b2) ==
    [ version |-> version,
      has_ftype |-> has_ftype,
      block_size |-> ScaledBlockSize(version),
      sb_rootino |-> 1,
      dinode |-> << [Dinode(S_IFDIR + 493, XFS_DINODE_FMT_EXTENTS) EXCEPT
                         !.di_magic = XFS_DINODE_MAGIC]
                        @@ [di_size |-> 2 * ScaledBlockSize(version),
                            di_nextents |-> nextents],
                    Dinode(S_IFREG + 420, XFS_DINODE_FMT_EXTENTS)
                        @@ [di_size |-> 0, di_nextents |-> 0],
                    Dinode(S_IFREG + 420, XFS_DINODE_FMT_EXTENTS)
                        @@ [di_size |-> 0, di_nextents |-> 0] >>,
      blocks |-> <<b1, b2>> ]

\* the two kinds of filesystem: version 4 without file types, version 5 with them
BlockVersions == { [version |-> 4, has_ftype |-> FALSE], [version |-> 5, has_ftype |-> TRUE] }

\* the frame of list(node.iterdir()): block_num and tell are the generator's position
\* (tell -1: at the head of the for loop), items what it has yielded, starts the block
\* and cursor each item was decoded at
BlockFrame(node) ==
    [fn |-> "iterdir", node |-> node, block_num |-> 0, tell |-> -1,
     items |-> <<>>, starts |-> <<>>]

AtBlock == stack # <<>> /\ "tell" \in DOMAIN Top

\* block_data of the block the generator is in
BlockData == image.blocks[Top.block_num + 1]

\* tail.count, from the last 8 bytes of the block; a count of 2^24 or more puts
\* entries_end below every cursor whatever its top byte, which is read as 1 to keep
\* 8 * count inside TLC's integers
TailCount(blk) ==
    LET t == BytesAt(blk, Len(blk) - 8, 4)
    IN U32Of(<<IF t[1] > 0 THEN 1 ELSE 0, t[2], t[3], t[4]>>)

\* an entries_end that is the block size whatever the extent count
EntriesEndWholeBlock(node, blk) == image.block_size

\* entries_end
EntriesEnd(node, blk) ==
    IF image.dinode[node.inum].di_nextents > 1 THEN image.block_size
    ELSE image.block_size - 8 - 8 * TailCount(blk)

\* the header's magic is one the version accepts
MagicAccepted(blk) ==
    IF image.version = 5
    THEN U32Of(BytesAt(blk, 0, 4)) \in {XFS_DIR3_BLOCK_MAGIC, XFS_DIR3_DATA_MAGIC}
    ELSE U32Of(BytesAt(blk, 0, 4)) \in {XFS_DIR2_BLOCK_MAGIC, XFS_DIR2_DATA_MAGIC}

\* a cursor moved back to the 8-byte boundary in front of it
AlignDown8(t) == t - (t % 8)

\* the cursor after `misalign = tell % 8; if misalign: seek(8 - misalign, SEEK_CUR)`
Align8(t) == IF t % 8 # 0 THEN t + (8 - (t % 8)) ELSE t

\* one pass of the body of `while True` at cursor c, up to `except EOFError`: an unused
\* record skipped, an entry read, or a structure that the block ends in
DecodeAt(blk, c) ==
    IF BytesAt(blk, c, 2) = <<255, 255>>
    THEN IF c + 6 > Len(blk) THEN [kind |-> "eof"]
         ELSE LET length == U16Of(BytesAt(blk, c + 2, 2))
                  \* block.read(n): to the end of the block when n is negative
                  after == IF length - 6 < 0 \/ c + length > Len(blk) THEN Len(blk)
                           ELSE c + length
              IN [kind |-> "unused", length |-> length, tell |-> Align8(after)]
    ELSE IF c + 9 > Len(blk) THEN [kind |-> "eof"]
    ELSE LET namelen == blk[c + 9]
             total == 9 + namelen + (IF image.has_ftype THEN 1 ELSE 0) + 2
         IN IF c + total > Len(blk) THEN [kind |-> "eof"]
            ELSE [kind |-> "entry",
                  inumber |-> BytesAt(blk, c, 8),
                  name |-> BytesAt(blk, c + 9, namelen),
                  ftype |-> IF image.has_ftype THEN blk[c + 9 + namelen + 1] ELSE 0,
                  tell |-> Align8(c + total)]

\* inum >> 48 == 0xFFFF
IsFreeTag(inumber) == inumber[1] = 255 /\ inumber[2] = 255

\* get_inode(inum, fname, ftype, parent=self, lazy=True) for the eight bytes of
\* entry.inumber: a number that does not fit a byte is outside every filesystem here
BlockGetInode(inumber, fname, ftype, parent) ==
    IF \E i \in 1..7 : inumber[i] # 0 THEN Err("Error")
    ELSE XfsGetInode(inumber[8], fname, ftype, parent, TRUE)

\* what the body of the loop makes of a decoded entry: the INode yielded or the error
EntryItem(node, e) ==
    LET ft == IF image.has_ftype THEN EntryFiletype(e.ftype) ELSE [val |-> 0]
    IN IF IsErr(ft) THEN ft
       ELSE BlockGetInode(e.inumber, DecodeName(e.name), ft.val, node)

\* list(node.iterdir()) up to the for loop
CallIterdirBlocks ==
    /\ stack = <<>>
    /\ \E node \in {Root, INode(2, NoName, 0, NoNode)} :
         /\ call' = [op |-> "iterdir", node |-> node]
         /\ IF Filetype(node) # S_IFDIR
            THEN /\ result' = Err("NotADirectoryError")
                 /\ stack' = <<>>
            ELSE /\ result' = NoResult
                 /\ stack' = <<BlockFrame(node)>>
    /\ UNCHANGED <<image, link_inode_memo, runlist, dirlist, ag>>

\* range(size // block_size) is exhausted: the generator returns
BlocksDone ==
    /\ AtBlock
    /\ Top.tell = -1
    /\ Top.block_num >= image.dinode[Top.node.inum].di_size \div image.block_size
    /\ result' = [items |-> Top.items, starts |-> Top.starts]
    /\ stack' = <<>>
    /\ UNCHANGED <<image, call, link_inode_memo, runlist, dirlist, ag>>

\* a block whose magic is not accepted: continue
BlockSkip ==
    /\ AtBlock
    /\ Top.tell = -1
    /\ Top.block_num < image.dinode[Top.node.inum].di_size \div image.block_size
    /\ ~MagicAccepted(BlockData)
    /\ stack' = <<[Top EXCEPT !.block_num = @ + 1]>>
    /\ UNCHANGED <<image, call, result, link_inode_memo, runlist, dirlist, ag>>

\* the header is read and accepted: the cursor stands behind it
BlockEnter ==
    /\ AtBlock
    /\ Top.tell = -1
    /\ Top.block_num < image.dinode[Top.node.inum].di_size \div image.block_size
    /\ MagicAccepted(BlockData)
    /\ stack' = <<[Top EXCEPT !.tell = DataHdrLen(image.version)]>>
    /\ UNCHANGED <<image, call, result, link_inode_memo, runlist, dirlist, ag>>

\* block.tell() >= entries_end: break
EntriesDone ==
    /\ AtBlock
    /\ Top.tell >= 0
    /\ Top.tell >= EntriesEnd(Top.node, BlockData)
    /\ stack' = <<[Top EXCEPT !.block_num = @ + 1, !.tell = -1]>>
    /\ UNCHANGED <<image, call, result, link_inode_memo, runlist, dirlist, ag>>

\* the two bytes at the cursor are 0xFFFF: the unused record is read and skipped
SkipUnused ==
    /\ AtBlock
    /\ Top.tell >= 0
    /\ Top.tell < EntriesEnd(Top.node, BlockData)
    /\ DecodeAt(BlockData, Top.tell).kind = "unused"
    /\ stack' = <<[Top EXCEPT !.tell = DecodeAt(BlockData, Top.tell).tell]>>
    /\ UNCHANGED <<image, call, result, link_inode_memo, runlist, dirlist, ag>>

\* EOFError while a record is read, or the free tag in the inode number: break
DecodeBreak ==
    /\ AtBlock
    /\ Top.tell >= 0
    /\ Top.tell < EntriesEnd(Top.node, BlockData)
    /\ LET d == DecodeAt(BlockData, Top.tell)
       IN d.kind = "eof" \/ (d.kind = "entry" /\ IsFreeTag(d.inumber))
    /\ stack' = <<[Top EXCEPT !.block_num = @ + 1, !.tell = -1]>>
    /\ UNCHANGED <<image, call, result, link_inode_memo, runlist, dirlist, ag>>

\* an entry is decoded and its INode yielded
EmitEntry ==
    /\ AtBlock
    /\ Top.tell >= 0
    /\ Top.tell < EntriesEnd(Top.node, BlockData)
    /\ LET d == DecodeAt(BlockData, Top.tell)
       IN /\ d.kind = "entry"
          /\ ~IsFreeTag(d.inumber)
          /\ ~IsErr(EntryItem(Top.node, d))
          /\ stack' = <<[Top EXCEPT !.tell = d.tell,
                                    !.items = Append(@, EntryItem(Top.node, d)),
                                    !.starts = Append(@, <<Top.block_num, Top.tell>>)]>>
    /\ UNCHANGED <<image, call, result, link_inode_memo, runlist, dirlist, ag>>

\* FILETYPES[entry.ftype] or get_inode raises: the enumeration ends with the error
EntryRaise ==
    /\ AtBlock
    /\ Top.tell >= 0
    /\ Top.tell < EntriesEnd(Top.node, BlockData)
    /\ LET d == DecodeAt(BlockData, Top.tell)
       IN /\ d.kind = "entry"
          /\ ~IsFreeTag(d.inumber)
          /\ IsErr(EntryItem(Top.node, d))
          /\ result' = EntryItem(Top.node, d)
    /\ stack' = <<>>
    /\ UNCHANGED <<image, call, link_inode_memo, runlist, dirlist, ag>>

InitBlock ==
    /\ \E v \in BlockVersions, nextents \in 1..2 :
         \E b1 \in FirstBlocks(v.version, v.has_ftype),
            b2 \in SecondBlocks(v.version, v.has_ftype) :
            image = BlockDirImage(v.version, v.has_ftype, nextents, b1, b2)
    /\ call = NoCall
    /\ stack = <<>>
    /\ result = NoResult
    /\ link_inode_memo = <<>>
    /\ runlist = NoList
    /\ dirlist = <<>>
    /\ ag = <<>>

NextBlock ==
    \/ CallIterdirBlocks
    \/ BlocksDone
    \/ BlockSkip
    \/ BlockEnter
    \/ EntriesDone
    \/ SkipUnused
    \/ DecodeBreak
    \/ EmitEntry
    \/ EntryRaise

SpecBlock == InitBlock /\ [][NextBlock]_vars

\* the decoder stands on an unused record
OnUnused ==
    /\ AtBlock
    /\ Top.tell >= 0
    /\ Top.tell < EntriesEnd(Top.node, BlockData)
    /\ BytesAt(BlockData, Top.tell, 2) = <<255, 255>>

\* C18: when the two bytes at the cursor c are 0xFFFF the decoder emits no entry for
\* the record and, for every value of its length field, goes on decoding the block at
\* c + length rounded up to a multiple of 8 (or is done with the block when that is
\* at or past entries_end).
C18_UnusedResumes ==
    [][OnUnused =>
         LET c == Top.tell
             target == Align8(c + U16Of(BytesAt(BlockData, c + 2, 2)))
             entries_end == EntriesEnd(Top.node, BlockData)
         IN /\ stack' # <<>>
            /\ Top'.items = Top.items
            /\ Top'.block_num = Top.block_num
            /\ IF target < entries_end THEN Top'.tell = target
               ELSE Top'.tell >= entries_end]_vars

\* the claim's entries_end for block number b of the directory dir
ClaimedEntriesEnd(dir, b) ==
    IF image.dinode[dir.inum].di_nextents > 1 THEN image.block_size
    ELSE image.block_size - 8
             - 8 * U32Of(SubSeq(image.blocks[b + 1], image.block_size - 7, image.block_size - 4))

\* every item decoded at starts[k] lies in front of entries_end, in a block of accepted magic
StartsInFront(dir, starts) ==
    \A k \in 1..Len(starts) :
        /\ starts[k][2] < ClaimedEntriesEnd(dir, starts[k][1])
        /\ MagicAccepted(image.blocks[starts[k][1] + 1])

\* C19: in a block-format directory no entry is emitted whose starting cursor is
\* >= entries_end (block_size when the inode has more than one data extent, otherwise
\* block_size - 8 - 8 * tail.count with the tail in the last 8 bytes of the block); a
\* block whose magic is not accepted emits nothing and the enumeration goes on with
\* the next block.
C19_EntriesEndRespected ==
    /\ [](AtBlock => StartsInFront(Top.node, Top.starts))
    /\ []((call.op = "iterdir" /\ "starts" \in DOMAIN result)
              => StartsInFront(call.node, result.starts))
    /\ [][(AtBlock /\ Top.tell = -1
             /\ Top.block_num < image.dinode[Top.node.inum].di_size \div image.block_size
             /\ ~MagicAccepted(BlockData))
            => /\ stack' # <<>>
               /\ Top'.items = Top.items
               /\ Top'.block_num = Top.block_num + 1
               /\ Top'.tell = -1]_vars

\* C19 witness: a finished enumeration of a one-extent directory whose first block has
\* no accepted magic: the entry of the second block was yielded, and the leaf entries
\* behind entries_end, which read as entries, were not
C19_Witness ==
    /\ call.op = "iterdir"
    /\ "starts" \in DOMAIN result
    /\ image.dinode[call.node.inum].di_nextents = 1
    /\ ~MagicAccepted(image.blocks[1])
    /\ TailCount(image.blocks[2]) = 2
    /\ DecodeAt(image.blocks[2], ClaimedEntriesEnd(call.node, 1)).kind = "entry"
    /\ Len(result.items) = 1
    /\ result.starts = <<<<1, DataHdrLen(image.version)>>>>
    /\ result.items[1].filename = <<"c">>
    /\ result.items[1].inum = 3

(***************************************************************************)
(* The B+tree walkers.  The device self.fh is the sequence of its bytes;   *)
(* the recursive generators are a stack of frames over the one file        *)
(* position.  Block sizes are scaled down so that a block holds four       *)
(* (short form) or three (long form) keys and pointers and some slack.     *)
(***************************************************************************)
XFS_IBT_MAGIC == 1229013588
XFS_IBT_CRC_MAGIC == 1229013555
XFS_BMAP_MAGIC == 1112359248
XFS_BMAP_CRC_MAGIC == 1112359219

\* the most pointers written in the root of a tree
MaxPtrs == 2

\* the depth of generators at which Python gives up with RecursionError, scaled down
MaxWalkDepth == 4

\* len(self._sblock_s), len(self._lblock_s)
TreeHdrLen(form, has_crc) ==
    IF form = "small" THEN (IF has_crc THEN 56 ELSE 16) ELSE (IF has_crc THEN 72 ELSE 24)

TreeBlockSize(form, has_crc) ==
    TreeHdrLen(form, has_crc) + (IF form = "small" THEN 4 * 8 + 4 ELSE 3 * 16 + 8)

U64(v) == Zeros(4) \o U32(v)

U64Of(s) == U32Of(SubSeq(s, 1, 4)) * 65536 * 65536 + U32Of(SubSeq(s, 5, 8))

\* the magic a sound block of the form carries
TreeMagic(form, has_crc) ==
    IF form = "small" THEN (IF has_crc THEN XFS_IBT_CRC_MAGIC ELSE XFS_IBT_MAGIC)
    ELSE (IF has_crc THEN XFS_BMAP_CRC_MAGIC ELSE XFS_BMAP_MAGIC)

\* a block cut or padded to the block size
FitBlock(bytes, size) ==
    IF Len(bytes) >= size THEN SubSeq(bytes, 1, size) ELSE bytes \o Zeros(size - Len(bytes))

TreeHdr(form, has_crc, magic, level, numrecs) ==
    U32(magic) \o U16(level) \o U16(numrecs) \o Zeros(TreeHdrLen(form, has_crc) - 8)

\* a leaf block at absolute block number at: written records of 16 bytes that name
\* the block and their index, under a header that claims numrecs of them
LeafBlock(form, has_crc, magic, at, numrecs, written) ==
    LET recs == [k \in 1..(16 * written) |->
                    IF k % 16 = 1 THEN at + 1 ELSE IF k % 16 = 2 THEN (k \div 16) + 1 ELSE 0]
    IN FitBlock(TreeHdr(form, has_crc, magic, 0, numrecs) \o recs, TreeBlockSize(form, has_crc))

\* the pointer to block rel of allocation group agnum: AG-relative in the short
\* form, a filesystem block number in the long form
EncPtr(form, agnum, agblklog, rel) ==
    IF form = "small" THEN U32(rel) ELSE U64(agnum * (2 ^ agblklog) + rel)

RECURSIVE EncPtrs(_, _, _, _)
EncPtrs(form, agnum, agblklog, rels) ==
    IF rels = <<>> THEN <<>>
    ELSE EncPtr(form, agnum, agblklog, Head(rels)) \o EncPtrs(form, agnum, agblklog, Tail(rels))

\* a node block: every key slot holds the number of the last block of the group, then
\* the pointers
NodeBlock(form, has_crc, agnum, agblklog, level, rels) ==
    LET maxrecs == IF form = "small" THEN 4 ELSE 3
    IN FitBlock(TreeHdr(form, has_crc, TreeMagic(form, has_crc), level, Len(rels))
                    \o EncPtrs(form, agnum, agblklog, [k \in 1..maxrecs |-> 3])
                    \o EncPtrs(form, agnum, agblklog, rels),
                TreeBlockSize(form, has_crc))

\* the four blocks of the allocation group that holds the tree, by what the root is:
\* a leaf of 0..2 records, a node over one or more of the blocks 1 and 3, or a block
\* without the magic
TreeRoots(form, has_crc, agnum, agblklog) ==
    { LeafBlock(form, has_crc, TreeMagic(form, has_crc), 4 * agnum, n, n) : n \in 0..2 }
    \cup { NodeBlock(form, has_crc, agnum, agblklog, 2, rels) :
             rels \in UNION { [1..n -> {1, 3}] : n \in 1..MaxPtrs } }
    \cup { LeafBlock(form, has_crc, 0, 4 * agnum, 1, 1) }

\* block 1: a leaf, a node over blocks 2 and 3, a node that points back at the root,
\* a node whose pointer leaves the device, or a leaf without the magic
TreeInner(form, has_crc, agnum, agblklog) ==
    { LeafBlock(form, has_crc, TreeMagic(form, has_crc), 4 * agnum + 1, 2, 2),
      NodeBlock(form, has_crc, agnum, agblklog, 1, <<2, 3>>),
      NodeBlock(form, has_crc, agnum, agblklog, 1, <<0>>),
      NodeBlock(form, has_crc, agnum, agblklog, 1, <<2, 7>>),
      LeafBlock(form, has_crc, 0, 4 * agnum + 1, 1, 1) }

\* block 2: a leaf of one record or of none
TreeLeaves(form, has_crc, agnum) ==
    { LeafBlock(form, has_crc, TreeMagic(form, has_crc), 4 * agnum + 2, n, n) : n \in 0..1 }

\* block 3: a leaf of two records, or one whose header claims six
TreeLast(form, has_crc, agnum) ==
    { LeafBlock(form, has_crc, TreeMagic(form, has_crc), 4 * agnum + 3, n, 2) : n \in {2, 6} }

\* the blocks of the other allocation group: leaves of one record
OtherGroup(form, has_crc, agnum) ==
    LeafBlock(form, has_crc, TreeMagic(form, has_crc), 4 * agnum, 1, 1)
    \o LeafBlock(form, has_crc, TreeMagic(form, has_crc), 4 * agnum + 1, 1, 1)
    \o LeafBlock(form, has_crc, TreeMagic(form, has_crc), 4 * agnum + 2, 1, 1)
    \o LeafBlock(form, has_crc, TreeMagic(form, has_crc), 4 * agnum + 3, 1, 1)

\* a device of two allocation groups of four blocks, the tree in one of them
TreeImage(form, has_crc, agnum, b0, b1, b2, b3) ==
    [ form |-> form, has_crc |-> has_crc,
      block_size |-> TreeBlockSize(form, has_crc),
      sb_agblocks |-> 4, sb_agblklog |-> 2,
      fh |-> IF agnum = 0
             THEN b0 \o b1 \o b2 \o b3 \o OtherGroup(form, has_crc, 1)
             ELSE OtherGroup(form, has_crc, 0) \o b0 \o b1 \o b2 \o b3 ]

\* fh.read(n) at position pos: what the device holds there, at most n bytes
FhRead(pos, n) == BytesAt(image.fh, pos, n)

\* self._sblock_s(fh) / self._lblock_s(fh) at position pos
ReadTreeHdr(pos) ==
    LET s == FhRead(pos, TreeHdrLen(image.form, image.has_crc))
    IN IF Len(s) < TreeHdrLen(image.form, image.has_crc) THEN Err("EOFError")
       ELSE [bb_magic |-> U32Of(SubSeq(s, 1, 4)),
             bb_level |-> U16Of(SubSeq(s, 5, 6)),
             bb_numrecs |-> U16Of(SubSeq(s, 7, 8))]

\* the frame of the consumer: the position of self.fh and the records yielded so far
WalkFrame(pos) == [fn |-> "walk", fh |-> pos, out |-> <<>>]

\* the frame of _walk_small_tree / _walk_large_tree(node, ...) before its body has run
NodeFrame(node) == [fn |-> "node", node |-> node, phase |-> "new", buf |-> <<>>, ptrs |-> <<>>, k |-> 0]

AtWalk == stack # <<>> /\ stack[1].fn = "walk"

\* the stack with the file position moved and the top frame replaced
WalkWith(pos, frame) ==
    <<[stack[1] EXCEPT !.fh = pos]>> \o SubSeq(stack, 2, Len(stack) - 1) \o <<frame>>

\* `if magic and node.bb_magic not in magic`
BadTreeMagic(node) ==
    /\ call.checked
    /\ IF call.op = "walk_small_tree"
       THEN node.bb_magic \notin {XFS_IBT_MAGIC, XFS_IBT_CRC_MAGIC}
       ELSE node.bb_magic \notin {XFS_BMAP_MAGIC, XFS_BMAP_CRC_MAGIC}

\* the size of a pointer, which is the size of a key
PtrSize == IF call.op = "walk_small_tree" THEN 4 ELSE 8

\* maxrecs
Maxrecs ==
    IF call.op = "walk_small_tree"
    THEN (image.block_size - TreeHdrLen(image.form, image.has_crc)) \div 8
    ELSE (image.block_size - TreeHdrLen(image.form, image.has_crc)) \div 16

\* a walker that skips one key where it has to skip maxrecs of them
PtrsSeekOneKey == PtrSize

\* fh.seek(maxrecs * 4, io.SEEK_CUR) / fh.seek(maxrecs * 8, io.SEEK_CUR)
PtrsSeek == Maxrecs * PtrSize

\* c_xfs.uint32[n](fh) / c_xfs.uint64[n](fh) of the bytes s
DecodePtrs(s) ==
    [k \in 1..(Len(s) \div PtrSize) |->
        IF PtrSize = 4 THEN U32Of(SubSeq(s, 4 * k - 3, 4 * k))
        ELSE U64Of(SubSeq(s, 8 * k - 7, 8 * k))]

\* the absolute block a pointer leads to
ChildBlock(ptr) ==
    IF call.op = "walk_small_tree" THEN call.agnum * image.sb_agblocks + ptr
    ELSE fsb_to_bb(ptr, image.sb_agblklog)[1] * image.sb_agblocks
             + fsb_to_bb(ptr, image.sb_agblklog)[2]

\* walk_small_tree(block, agnum, 16, magic), first step of the generator
CallWalkSmallTree ==
    /\ stack = <<>>
    /\ image.form = "small"
    /\ \E block \in 0..1, agnum \in 0..1, checked \in BOOLEAN :
         LET pos == (agnum * image.sb_agblocks + block) * image.block_size
         IN /\ call' = [op |-> "walk_small_tree", block |-> block, agnum |-> agnum,
                        leaf_size |-> 16, checked |-> checked]
            /\ IF IsErr(ReadTreeHdr(pos))
               THEN /\ result' = ReadTreeHdr(pos)
                    /\ stack' = <<>>
               ELSE /\ result' = NoResult
                    /\ stack' = <<WalkFrame(pos + TreeHdrLen(image.form, image.has_crc)),
                                  NodeFrame(ReadTreeHdr(pos))>>
    /\ UNCHANGED <<image, link_inode_memo, runlist, dirlist, ag>>

\* walk_large_tree(block, 16, magic), first step of the generator
CallWalkLargeTree ==
    /\ stack = <<>>
    /\ image.form = "large"
    /\ \E block \in {0, 1, 4, 5}, checked \in BOOLEAN :
         LET pos == block * image.block_size
         IN /\ call' = [op |-> "walk_large_tree", block |-> block, agnum |-> 0,
                        leaf_size |-> 16, checked |-> checked]
            /\ IF IsErr(ReadTreeHdr(pos))
               THEN /\ result' = ReadTreeHdr(pos)
                    /\ stack' = <<>>
               ELSE /\ result' = NoResult
                    /\ stack' = <<WalkFrame(pos + TreeHdrLen(image.form, image.has_crc)),
                                  NodeFrame(ReadTreeHdr(pos))>>
    /\ UNCHANGED <<image, link_inode_memo, runlist, dirlist, ag>>

\* the magic is not an expected one, or the pointers end with the device: the walk
\* ends with the error
WalkRaise ==
    /\ AtWalk
    /\ Top.phase = "new"
    /\ \/ /\ BadTreeMagic(Top.node)
          /\ result' = Err("Error")
       \/ /\ ~BadTreeMagic(Top.node)
          /\ Top.node.bb_level # 0
          /\ Len(FhRead(stack[1].fh + PtrsSeek, Top.node.bb_numrecs * PtrSize))
                 < Top.node.bb_numrecs * PtrSize
          /\ result' = Err("EOFError")
    /\ stack' = <<>>
    /\ UNCHANGED <<image, call, link_inode_memo, runlist, dirlist, ag>>

\* bb_level == 0: buf = fh.read(node.bb_numrecs * leaf_size)
LeafRead ==
    /\ AtWalk
    /\ Top.phase = "new"
    /\ ~BadTreeMagic(Top.node)
    /\ Top.node.bb_level = 0
    /\ LET buf == FhRead(stack[1].fh, Top.node.bb_numrecs * call.leaf_size)
       IN stack' = WalkWith(stack[1].fh + Len(buf), [Top EXCEPT !.phase = "leaf", !.buf = buf])
    /\ UNCHANGED <<image, call, result, link_inode_memo, runlist, dirlist, ag>>

\* otherwise: the keys are skipped and bb_numrecs pointers read
PtrsRead ==
    /\ AtWalk
    /\ Top.phase = "new"
    /\ ~BadTreeMagic(Top.node)
    /\ Top.node.bb_level # 0
    /\ LET s == FhRead(stack[1].fh + PtrsSeek, Top.node.bb_numrecs * PtrSize)
       IN /\ Len(s) = Top.node.bb_numrecs * PtrSize
          /\ stack' = WalkWith(stack[1].fh + PtrsSeek + Len(s),
                               [Top EXCEPT !.phase = "ptrs", !.ptrs = DecodePtrs(s)])
    /\ UNCHANGED <<image, call, result, link_inode_memo, runlist, dirlist, ag>>

\* a walker that reads each record when it is asked for, from where the source stands
\* counted back to the start of the leaf's records
LeafRecordUnbuffered(rec_num) ==
    FhRead(stack[1].fh - Len(Top.buf) + rec_num * call.leaf_size, call.leaf_size)

\* buf[rec_num * leaf_size : (rec_num + 1) * leaf_size]
LeafRecord(rec_num) == BytesAt(Top.buf, rec_num * call.leaf_size, call.leaf_size)

\* yield buf[rec_num * leaf_size : (rec_num + 1) * leaf_size]
LeafYield ==
    /\ AtWalk
    /\ Top.phase = "leaf"
    /\ Top.k < Top.node.bb_numrecs
    /\ stack' = <<[stack[1] EXCEPT !.out = Append(@, LeafRecord(Top.k))]>>
                    \o SubSeq(stack, 2, Len(stack) - 1) \o <<[Top EXCEPT !.k = @ + 1]>>
    /\ UNCHANGED <<image, call, result, link_inode_memo, runlist, dirlist, ag>>

\* a walker whose generators would stay suspended at the limit without raising
RecursionLimitSilent(depth) == FALSE

\* the interpreter raises RecursionError once depth generators are nested
RecursionLimit(depth) == depth >= MaxWalkDepth

\* for ptr in ptrs: seek to the child, read its header, yield from the walk of it
Descend ==
    /\ AtWalk
    /\ Top.phase = "ptrs"
    /\ Top.k < Len(Top.ptrs)
    /\ Len(stack) - 1 < MaxWalkDepth
    /\ LET pos == ChildBlock(Top.ptrs[Top.k + 1]) * image.block_size
       IN /\ ~IsErr(ReadTreeHdr(pos))
          /\ stack' = WalkWith(pos + TreeHdrLen(image.form, image.has_crc), [Top EXCEPT !.k = @ + 1])
                          \o <<NodeFrame(ReadTreeHdr(pos))>>
    /\ UNCHANGED <<image, call, result, link_inode_memo, runlist, dirlist, ag>>

\* the child lies behind the end of the device, or the generators are too deep
DescendRaise ==
    /\ AtWalk
    /\ Top.phase = "ptrs"
    /\ Top.k < Len(Top.ptrs)
    /\ LET pos == ChildBlock(Top.ptrs[Top.k + 1]) * image.block_size
       IN IF IsErr(ReadTreeHdr(pos)) THEN result' = ReadTreeHdr(pos)
          ELSE /\ RecursionLimit(Len(stack) - 1)
               /\ result' = Err("RecursionError")
    /\ stack' = <<>>
    /\ UNCHANGED <<image, call, link_inode_memo, runlist, dirlist, ag>>

\* the generator of a child is exhausted: its parent goes on
NodeReturn ==
    /\ AtWalk
    /\ Len(stack) > 2
    /\ \/ Top.phase = "leaf" /\ Top.k >= Top.node.bb_numrecs
       \/ Top.phase = "ptrs" /\ Top.k >= Len(Top.ptrs)
    /\ stack' = SubSeq(stack, 1, Len(stack) - 1)
    /\ UNCHANGED <<image, call, result, link_inode_memo, runlist, dirlist, ag>>

\* the generator of the root is exhausted
WalkDone ==
    /\ AtWalk
    /\ Len(stack) = 2
    /\ \/ Top.phase = "leaf" /\ Top.k >= Top.node.bb_numrecs
       \/ Top.phase = "ptrs" /\ Top.k >= Len(Top.ptrs)
    /\ result' = [records |-> stack[1].out]
    /\ stack' = <<>>
    /\ UNCHANGED <<image, call, link_inode_memo, runlist, dirlist, ag>>

InitWalk ==
    /\ \E form \in {"small", "large"}, has_crc \in BOOLEAN, agnum \in 0..1 :
         \E b0 \in TreeRoots(form, has_crc, agnum, 2),
            b1 \in TreeInner(form, has_crc, agnum, 2),
            b2 \in TreeLeaves(form, has_crc, agnum),
            b3 \in TreeLast(form, has_crc, agnum) :
            image = TreeImage(form, has_crc, agnum, b0, b1, b2, b3)
    /\ call = NoCall
    /\ stack = <<>>
    /\ result = NoResult
    /\ link_inode_memo = <<>>
    /\ runlist = NoList
    /\ dirlist = <<>>
    /\ ag = <<>>

NextWalk ==
    \/ CallWalkSmallTree
    \/ CallWalkLargeTree
    \/ WalkRaise
    \/ LeafRead
    \/ PtrsRead
    \/ LeafYield
    \/ Descend
    \/ DescendRaise
    \/ NodeReturn
    \/ WalkDone

SpecWalk == InitWalk /\ [][NextWalk]_vars

\* a is a prefix of b
IsPrefix(a, b) == Len(a) <= Len(b) /\ SubSeq(b, 1, Len(a)) = a

RECURSIVE LeftToRight(_, _)
RECURSIVE SubtreesInOrder(_, _, _)
\* the records of the tree under absolute block number block in depth-first order,
\* left to right, read off the device by offset; done is FALSE when the walk cannot
\* finish (a header or pointers behind the end of the device, a magic that is not
\* expected, more than MaxWalkDepth levels) and recs then holds what precedes that
LeftToRight(block, depth) ==
    LET hdr_size == TreeHdrLen(image.form, image.has_crc)
        base == block * image.block_size
        key_size == IF call.op = "walk_small_tree" THEN 4 ELSE 8
        ptr_size == key_size
        maxrecs == (image.block_size - hdr_size) \div (key_size + ptr_size)
        first_ptr == base + hdr_size + maxrecs * key_size
        magic == U32Of(SubSeq(image.fh, base + 1, base + 4))
        level == U16Of(SubSeq(image.fh, base + 5, base + 6))
        numrecs == U16Of(SubSeq(image.fh, base + 7, base + 8))
        ptr(i) == IF ptr_size = 4
                  THEN U32Of(SubSeq(image.fh, first_ptr + 4 * i - 3, first_ptr + 4 * i))
                  ELSE U64Of(SubSeq(image.fh, first_ptr + 8 * i - 7, first_ptr + 8 * i))
    IN IF depth > MaxWalkDepth \/ base + hdr_size > Len(image.fh)
       THEN [recs |-> <<>>, done |-> FALSE]
       ELSE IF BadTreeMagic([bb_magic |-> magic])
       THEN [recs |-> <<>>, done |-> FALSE]
       ELSE IF level = 0
       THEN [recs |-> [k \in 1..numrecs |->
                          BytesAt(image.fh, base + hdr_size + (k - 1) * call.leaf_size,
                                  call.leaf_size)],
             done |-> TRUE]
       ELSE IF first_ptr + numrecs * ptr_size > Len(image.fh)
       THEN [recs |-> <<>>, done |-> FALSE]
       ELSE SubtreesInOrder([i \in 1..numrecs |-> ChildBlock(ptr(i))], depth + 1, <<>>)

\* the subtrees under the blocks children, one after the other
SubtreesInOrder(children, depth, recs) ==
    IF children = <<>> THEN [recs |-> recs, done |-> TRUE]
    ELSE LET sub == LeftToRight(Head(children), depth)
         IN IF sub.done THEN SubtreesInOrder(Tail(children), depth, recs \o sub.recs)
            ELSE [recs |-> recs \o sub.recs, done |-> FALSE]

\* the tree the call walks
WalkedTree ==
    LeftToRight(IF call.op = "walk_small_tree"
                THEN call.agnum * image.sb_agblocks + call.block
                ELSE call.block, 1)

Walking == call.op \in {"walk_small_tree", "walk_large_tree"}

\* C20 as stated: walk_small_tree and walk_large_tree yield the leaf records
\* depth-first, left to right: a leaf yields exactly bb_numrecs records of leaf_size
\* bytes in index order, a non-leaf node every record under pointer i before any under
\* pointer i+1, the pointers being the first bb_numrecs slots maxrecs * key_size bytes
\* after the header with maxrecs = (block_size - header_size) / (key_size + ptr_size).
C20_DepthFirstFullRecords ==
    Walking =>
        /\ AtWalk => /\ IsPrefix(stack[1].out, WalkedTree.recs)
                     /\ \A k \in 1..Len(stack[1].out) : Len(stack[1].out[k]) = call.leaf_size
        /\ "records" \in DOMAIN result =>
               /\ WalkedTree.done
               /\ result.records = WalkedTree.recs
               /\ \A k \in 1..Len(result.records) : Len(result.records[k]) = call.leaf_size
        /\ IsErr(result) => ~WalkedTree.done

\* C20 (amended): the same order and the same number of records, a record being the
\* bytes the device holds in its leaf_size-byte slot: records at the end of the
\* device come out shorter than leaf_size, or empty.
C20_DepthFirst ==
    Walking =>
        /\ AtWalk => IsPrefix(stack[1].out, WalkedTree.recs)
        /\ "records" \in DOMAIN result =>
               /\ WalkedTree.done
               /\ result.records = WalkedTree.recs
        /\ IsErr(result) => ~WalkedTree.done

\* C20 witness: a finished walk of a tree of three levels: the root points at block 1
\* and then at block 3, block 1 at blocks 2 and 3; the records of block 2 come first,
\* those of block 3 twice after them
C20_Witness ==
    /\ Walking
    /\ "records" \in DOMAIN result
    /\ Len(result.records) = 5
    /\ LET first == (IF call.op = "walk_small_tree" THEN call.agnum * image.sb_agblocks
                     ELSE call.block) + 1
       IN [k \in 1..5 |-> <<result.records[k][1], result.records[k][2], Len(result.records[k])>>]
              = << <<first + 2, 1, 16>>, <<first + 3, 1, 16>>, <<first + 3, 2, 16>>,
                   <<first + 3, 1, 16>>, <<first + 3, 2, 16>> >>

(***************************************************************************)
(* Termination of the B+tree walk.  The consumer of the generator keeps    *)
(* asking for the next record: every step of the walk is taken when it is  *)
(* enabled.                                                                *)
(***************************************************************************)
StepWalk ==
    \/ WalkRaise
    \/ LeafRead
    \/ PtrsRead
    \/ LeafYield
    \/ Descend
    \/ DescendRaise
    \/ NodeReturn
    \/ WalkDone

FairSpecWalk == InitWalk /\ [][NextWalk]_vars /\ WF_vars(StepWalk)

\* the block at absolute number block is a node with a pointer to the root of the walk
PointsAtRoot(block) ==
    LET hdr == ReadTreeHdr(block * image.block_size)
        first_ptr == block * image.block_size + TreeHdrLen(image.form, image.has_crc) + PtrsSeek
    IN /\ ~IsErr(hdr)
       /\ hdr.bb_level # 0
       /\ \E p \in 1..Len(DecodePtrs(FhRead(first_ptr, hdr.bb_numrecs * PtrSize))) :
            ChildBlock(DecodePtrs(FhRead(first_ptr, hdr.bb_numrecs * PtrSize))[p])
                = (IF call.op = "walk_small_tree"
                   THEN call.agnum * image.sb_agblocks + call.block ELSE call.block)

\* C21: a full iteration of walk_small_tree / walk_large_tree eventually finishes or
\* fails with an error, whatever bb_level, bb_numrecs and child pointers the visited
\* blocks hold, child pointers that lead back to a visited block included.
C21_WalkEnds == AtWalk ~> (stack = <<>> /\ Walking /\ (IsErr(result) \/ "records" \in DOMAIN result))

\* C21 witness: a walk over a tree whose block 1 points back at the root has ended,
\* with RecursionError
C21_Witness ==
    /\ Walking
    /\ stack = <<>>
    /\ result = Err("RecursionError")
    /\ \E b \in 0..7 : PointsAtRoot(b)

(***************************************************************************)
(* The forks of an inode.  An image is one inode of sb_inodesize bytes; a  *)
(* fork is the RangeStream (offset, size) laid over its buffer.            *)
(***************************************************************************)
ForkImages ==
    { [ sb_inodesize |-> inodesize,
        di_version |-> version,
        di_format |-> format,
        di_size |-> size,
        di_forkoff |-> forkoff ] :
        inodesize \in {256, 512},
        version \in {2, 3},
        format \in {XFS_DINODE_FMT_LOCAL, XFS_DINODE_FMT_EXTENTS},
        size \in {0, 10, 156, 157, 1000},
        forkoff \in {0, 1, 10, 19, 20, 255} }

notfork == <<stack, link_inode_memo, runlist, dirlist, ag>>

\* offset = 0xB0 if self.inode.di_version == 0x3 else 0x64
DataOffset == IF image.di_version = 3 THEN 176 ELSE 100

\* datafork()
Datafork ==
    [offset |-> DataOffset,
     size |-> IF image.di_format = XFS_DINODE_FMT_LOCAL THEN image.di_size
              ELSE IF image.di_forkoff # 0 THEN image.di_forkoff * 8
              ELSE image.sb_inodesize - DataOffset]

\* attrfork()
Attrfork ==
    IF image.di_forkoff = 0 THEN Err("Error")
    ELSE [offset |-> DataOffset + image.di_forkoff * 8,
          size |-> image.sb_inodesize - (DataOffset + image.di_forkoff * 8)]

CallDatafork ==
    /\ call' = [op |-> "datafork"]
    /\ result' = Datafork
    /\ UNCHANGED <<image, notfork>>

CallAttrfork ==
    /\ call' = [op |-> "attrfork"]
    /\ result' = Attrfork
    /\ UNCHANGED <<image, notfork>>

InitFork ==
    /\ image \in ForkImages
    /\ call = NoCall
    /\ stack = <<>>
    /\ result = NoResult
    /\ link_inode_memo = <<>>
    /\ runlist = NoList
    /\ dirlist = <<>>
    /\ ag = <<>>

NextFork == CallDatafork \/ CallAttrfork

SpecFork == InitFork /\ [][NextFork]_vars

\* the slice lies inside the buffer of sb_inodesize bytes
InsideBuffer(fork) ==
    /\ fork.offset >= 0
    /\ fork.size >= 0
    /\ fork.offset + fork.size <= image.sb_inodesize

\* C22: the data fork and the attribute fork are slices that lie inside the cached
\* inode buffer (offset >= 0, size >= 0, offset + size <= sb_inodesize), with data
\* size = size (LOCAL), else forkoff * 8 (forkoff != 0), else inodesize - data_offset,
\* and attr offset = data_offset + forkoff * 8; attrfork() fails when forkoff == 0.
C22_ForksInsideBuffer ==
    /\ call.op = "datafork" =>
           /\ InsideBuffer(result)
           /\ result.size = (IF image.di_format = XFS_DINODE_FMT_LOCAL THEN image.di_size
                             ELSE IF image.di_forkoff # 0 THEN image.di_forkoff * 8
                             ELSE image.sb_inodesize - result.offset)
    /\ call.op = "attrfork" =>
           IF image.di_forkoff = 0 THEN IsErr(result)
           ELSE /\ InsideBuffer(result)
                /\ result.offset = DataOffset + image.di_forkoff * 8

(***************************************************************************)
(* The memo of INode.dataruns.  Each call records whether it went through  *)
(* the body of `if not self._runlist` (decoded the extent list and built   *)
(* the run-list) or returned the memo.                                     *)
(***************************************************************************)
\* `not self._runlist`: None and the empty list are both false
RunlistUnset(memo) == memo = NoList \/ memo.runs = <<>>

\* the inode formats whose open() goes through dataruns()
OpenUsesDataruns == image.di_format \in {XFS_DINODE_FMT_EXTENTS, XFS_DINODE_FMT_BTREE}

\* inode.dataruns()
CallDatarunsTraced ==
    /\ call' = [op |-> "dataruns", decoded |-> RunlistUnset(runlist)]
    /\ runlist' = Dataruns(runlist).memo
    /\ result' = Dataruns(runlist).ret
    /\ UNCHANGED <<image, notopen>>

\* inode.open(), as link and iterdir call it
CallOpenTraced ==
    /\ call' = [op |-> "open", decoded |-> OpenUsesDataruns /\ RunlistUnset(runlist)]
    /\ runlist' = Open(runlist).memo
    /\ result' = Open(runlist).ret
    /\ UNCHANGED <<image, notopen>>

NextMemo == CallDatarunsTraced \/ CallOpenTraced

SpecMemo == InitOpen /\ [][NextMemo]_vars

\* C23: over any number of dataruns() calls, direct or through open(), the extent list
\* is decoded and the run-list built at most once; every later call returns the
\* memoized list without reading the data fork or the byte source again.
C23_BuiltOnce == [][runlist # NoList => ~call'.decoded]_vars

(***************************************************************************)
(* The key of the per-AG inode cache, on the model of the lru_cache above. *)
(***************************************************************************)
\* the arguments of a call, defaults filled in
ArgsOf(a) == <<a.inum, a.filename, a.filetype, a.parent, a.lazy>>

\* the positions of the resident entries made for relative inode number rel
ResidentFor(cache, rel) == { i \in 1..Len(cache) : cache[i].value.relative_inum = rel }

\* a step that is a call of ag.get_inode which returned an inode
GotInode == CallAgGetInode /\ "obj" \in DOMAIN result'

CallGetListed ==
    /\ stack = <<>>
    /\ call.op = "listdir"
    /\ "dict" \in DOMAIN result
    /\ \E i \in 1..Len(result.dict) :
         /\ call' = [op |-> "get", path |-> result.dict[i].key, node |-> call.node,
                     listed |-> result.dict[i].value]
         /\ result' = Lookup(call.node, result.dict[i].key)
    /\ UNCHANGED <<image, stack, dirlist, notdir>>

NextListed == CallListdir \/ IterdirRaise \/ IterdirYield \/ IterdirStop \/ CallGetListed

SpecListed == InitDir /\ [][NextListed]_vars

\* C25: for every directory d and every name n in d.listdir(), XFS.get(n, d) returns
\* an inode with the same inode number as d.listdir()[n], including when the
\* enumeration of d yields more than one entry named n.
C25_GetAgreesWithListdir ==
    (call.op = "get" /\ "listed" \in DOMAIN call) =>
        /\ ~IsErr(result)
        /\ result.inum = call.listed.inum

(***************************************************************************)
(* The walk and a consumer that uses the same byte source.  The generator  *)
(* is suspended at `yield`; before it asks for the next record the         *)
(* consumer may leave self.fh at another position.                         *)
(***************************************************************************)
\* the generator stands at the yield of a leaf record
Suspended == AtWalk /\ Top.phase = "leaf" /\ Top.k >= 1

\* the consumer seeks or reads self.fh (get_inode, a read of an open file) while the
\* walk is suspended
ConsumerSeek ==
    /\ Suspended
    /\ \E pos \in {0, Len(image.fh)} :
         /\ pos # stack[1].fh
         /\ stack' = [stack EXCEPT ![1].fh = pos]
    /\ UNCHANGED <<image, call, result, link_inode_memo, runlist, dirlist, ag>>

NextShared == NextWalk \/ ConsumerSeek

SpecShared == InitWalk /\ [][NextShared]_vars

\* C26: the records yielded by walk_small_tree / walk_large_tree do not depend on what
\* the consumer does with the shared byte source between two yields: the remaining
\* records are those of an uninterrupted walk, which are the records of the tree read
\* off the device by position.
C26_SharedSource ==
    /\ [](Walking /\ AtWalk => IsPrefix(stack[1].out, WalkedTree.recs))
    /\ [](Walking /\ stack = <<>> =>
              IF WalkedTree.done THEN result = [records |-> WalkedTree.recs]
              ELSE IsErr(result))
    /\ [][Suspended /\ LeafYield => stack'[1].out = Append(stack[1].out, WalkedTree.recs[Len(stack[1].out) + 1])]_vars

\* C26 witness: a walk of a three-level tree has finished with the five records of the
\* uninterrupted walk although the consumer left the source at position 0 while the
\* walk was suspended in its last leaf
C26_Witness ==
    /\ Walking
    /\ stack # <<>>
    /\ Suspended
    /\ stack[1].fh = 0
    /\ Len(stack[1].out) = 5
    /\ Top.k = 2
    /\ stack[1].out = WalkedTree.recs

(***************************************************************************)
(* Termination of the entry loop of one directory block (xfs.py 465-502).  *)
(***************************************************************************)
\* the steps of the entry loop: the consumer keeps asking for the next entry
StepBlock == EntriesDone \/ SkipUnused \/ DecodeBreak \/ EmitEntry \/ EntryRaise

\* the directories whose second block has the magic of the version
InitBlockSound ==
    /\ InitBlock
    /\ U32Of(BytesAt(image.blocks[2], 0, 4)) = BlockMagic(image.version)

FairSpecBlock == InitBlockSound /\ [][NextBlock]_vars /\ WF_vars(StepBlock)

\* the decoder is inside the entry loop of a block
InEntryLoop == AtBlock /\ Top.tell >= 0

\* len(xfs_dir2_data_unused), and the fixed fields of an entry: inumber, namelen,
\* the file-type byte where the filesystem has one, tag
FixedLen(blk, c) ==
    IF BytesAt(blk, c, 2) = <<255, 255>> THEN 6
    ELSE 8 + 1 + (IF image.has_ftype THEN 1 ELSE 0) + 2

\* C27: decoding one directory data block always terminates: every iteration of the
\* entry loop either stops the block (break, or an error that ends the enumeration)
\* or strictly advances the cursor, an unused record by at least its 6 header bytes
\* whatever its length field, an entry by at least its fixed fields; the cursor never
\* passes the end of the block, so the loop leaves every block it enters.
C27_BlockDecodingEnds ==
    /\ [](InEntryLoop => Top.tell <= image.block_size)
    /\ [][InEntryLoop =>
            \/ stack' = <<>>
            \/ Top'.tell = -1 /\ Top'.block_num = Top.block_num + 1
            \/ /\ Top'.block_num = Top.block_num
               /\ Top'.tell >= Top.tell + FixedLen(BlockData, Top.tell)]_vars
    /\ InEntryLoop ~> ~InEntryLoop

\* C27 witness: the block begins with an unused record whose length field is 0, and the
\* cursor has moved off it (block.read(-6) reads to the end of the block)
C27_Witness ==
    /\ InEntryLoop
    /\ Top.block_num = 0
    /\ BytesAt(BlockData, DataHdrLen(image.version), 4) = <<255, 255, 0, 0>>
    /\ Top.tell > DataHdrLen(image.version)
    /\ Top.tell = image.block_size
    /\ Top.items = <<>>

(***************************************************************************)
(* XFS.get, iterdir and listdir on inodes that are no directories.         *)
(***************************************************************************)
\* list(node.iterdir()): the error the generator raises, before its first item or
\* where an item would be made, or the items
Enumerate(node) ==
    LET it == Iterdir(node)
    IN IF IsErr(it) THEN it
       ELSE IF \E k \in 1..Len(it.items) : IsErr(it.items[k])
       THEN it.items[CHOOSE k \in 1..Len(it.items) :
                        /\ IsErr(it.items[k])
                        /\ \A j \in 1..(k - 1) : ~IsErr(it.items[j])]
       ELSE it

\* the caller evaluates list(node.iterdir()) or node.listdir() on a node it holds
CallEnumerate ==
    /\ ~Running
    /\ \E node \in Held, fn \in {"iterdir", "listdir"} :
         LET r == Enumerate(node)
         IN /\ call' = [op |-> fn, node |-> node]
            /\ IF fn = "listdir" /\ node \in DOMAIN dirlist /\ dirlist[node] # <<>>
               THEN /\ result' = [dict |-> dirlist[node]]
                    /\ dirlist' = dirlist
               ELSE IF IsErr(r) \/ fn = "iterdir"
               THEN /\ result' = r
                    /\ dirlist' = dirlist
               ELSE /\ result' = [dict |-> DictOf(<<>>, r.items)]
                    /\ dirlist' = (node :> DictOf(<<>>, r.items)) @@ dirlist
    /\ UNCHANGED <<image, stack, link_inode_memo, runlist, ag>>

\* the caller drops the filesystem object and its inodes and opens the image again
ReopenAll ==
    /\ ~Running
    /\ result # NoResult
    /\ call' = NoCall
    /\ stack' = <<>>
    /\ result' = NoResult
    /\ link_inode_memo' = <<>>
    /\ dirlist' = <<>>
    /\ UNCHANGED <<image, runlist, ag>>

NextEnum == CallGet \/ CallLinkInode \/ CallLink \/ Step \/ CallEnumerate \/ ReopenAll

SpecEnum == Init /\ [][NextEnum]_vars

\* XFS.get stands at `for entry in node.iterdir()` with a node whose filetype is
\* neither directory nor symlink
AtNonDirectory ==
    /\ AtGet("iterdir")
    /\ Filetype(Top.node) \notin {S_IFDIR, S_IFLNK}

\* C28: when XFS.get reaches a node whose filetype is neither directory nor symlink
\* and a non-empty segment remains, the whole call fails with NotADirectoryError,
\* raised by the enumeration of that node, and not with FileNotFoundError; iterdir()
\* and listdir() on a node whose filetype is not directory fail with
\* NotADirectoryError, yield no entry and memoize nothing.
C28_NotADirectory ==
    /\ [](AtGet("iterdir") =>
            /\ Top.parts[Top.i] # <<>>
            /\ Filetype(Top.node) # S_IFLNK)
    /\ [][AtNonDirectory =>
            /\ stack' = <<>>
            /\ result' = Err("NotADirectoryError")]_vars
    /\ []((~Running /\ call.op \in {"iterdir", "listdir"} /\ Filetype(call.node) # S_IFDIR)
            => /\ result = Err("NotADirectoryError")
               /\ call.node \notin DOMAIN dirlist)
    /\ [](\A node \in Held : Filetype(node) # S_IFDIR => Iterdir(node) = Err("NotADirectoryError"))

\* C28 witness: get("f/x") from the root has failed on the regular file f
C28_Witness ==
    /\ call.op = "get"
    /\ call.path = <<"f", "/", "x">>
    /\ call.node = NoNode
    /\ ~Running
    /\ result = Err("NotADirectoryError")
    /\ Lookup(Root, <<"f">>).inum = 3
    /\ Filetype(Lookup(Root, <<"f">>)) = S_IFREG

(***************************************************************************)
(* Directory enumeration and the dinodes of the inodes it yields.  The     *)
(* image is a shortform root whose parent and entries vary, the block      *)
(* directory 2 with the entries ".", ".." and x -> 3, and inode 3, whose   *)
(* dinode has its magic or not.                                            *)
(***************************************************************************)
LazyImage(has_ftype, parent, entries, magic3) ==
    [ version |-> 5,
      has_ftype |-> has_ftype,
      sb_rootino |-> 1,
      dinode |-> << Dinode(S_IFDIR + 493, XFS_DINODE_FMT_LOCAL),
                    Dinode(S_IFDIR + 493, XFS_DINODE_FMT_EXTENTS),
                    [Dinode(S_IFREG + 420, XFS_DINODE_FMT_EXTENTS) EXCEPT !.di_magic = magic3] >>,
      dir |-> << [parent |-> parent, count |-> Len(entries), entries |-> entries],
                 [parent |-> 1, count |-> 3,
                  entries |-> << DirEntry(<<".">>, 2, 2), DirEntry(<<".", ".">>, 1, 2),
                                 DirEntry(<<"x">>, 3, 1) >>],
                 NoDir >>,
      content |-> << Content(0, 1, <<"?">>), Content(0, 1, <<"?">>), Content(0, 1, <<"r">>) >> ]

\* INode._read_inode's test of the magic
MagicOk(inum) == image.dinode[inum].di_magic = XFS_DINODE_MAGIC

\* INode.inode: the dinode is read at each access until a read succeeds
ReadInode(node) ==
    IF ~MagicOk(node.inum) THEN Err("Error") ELSE [dinode |-> image.dinode[node.inum]]

\* the inodes a caller gets by number: XFS.get_inode(inum) reads the dinode
GotByNumber ==
    { n \in { XfsGetInode(i, NoName, 0, NoNode, FALSE) : i \in DOMAIN image.dinode } : ~IsErr(n) }

\* list(node.iterdir()) or node.listdir() on an inode got by number
CallEnumLazy ==
    /\ stack = <<>>
    /\ \E node \in GotByNumber, fn \in {"iterdir", "listdir"} :
         /\ call' = [op |-> fn, node |-> node]
         /\ IF fn = "listdir" /\ node.inum \in DOMAIN dirlist /\ dirlist[node.inum] # <<>>
            THEN /\ result' = [dict |-> dirlist[node.inum]]
                 /\ stack' = <<>>
            ELSE /\ result' = NoResult
                 /\ stack' = <<DirFrame(fn, node)>>
    /\ UNCHANGED <<image, dirlist, notdir>>

\* the inodes the last enumeration gave the caller
Enumerated ==
    IF "items" \in DOMAIN result THEN { result.items[k] : k \in 1..Len(result.items) }
    ELSE IF "dict" \in DOMAIN result THEN { result.dict[k].value : k \in 1..Len(result.dict) }
    ELSE {}

\* the first metadata access on an enumerated inode: node.inode
CallInode ==
    /\ stack = <<>>
    /\ \E node \in Enumerated :
         /\ call' = [op |-> "inode", node |-> node]
         /\ result' = ReadInode(node)
    /\ UNCHANGED <<image, stack, dirlist, notdir>>

InitLazy ==
    /\ \E has_ftype \in BOOLEAN, parent \in {1, 3, 9}, entries \in SfEntryLists,
          magic3 \in {XFS_DINODE_MAGIC, 0} :
         image = LazyImage(has_ftype, parent, entries, magic3)
    /\ call = NoCall
    /\ stack = <<>>
    /\ result = NoResult
    /\ link_inode_memo = <<>>
    /\ runlist = NoList
    /\ dirlist = <<>>
    /\ ag = <<>>

NextLazy == CallEnumLazy \/ IterdirRaise \/ IterdirYield \/ IterdirStop \/ CallInode

SpecLazy == InitLazy /\ [][NextLazy]_vars

\* the enumeration has a next item to make
HasNextItem ==
    /\ AtDir
    /\ ~IsErr(Iterdir(Top.node))
    /\ Len(Top.out) < Len(Iterdir(Top.node).items)

\* the next item is made from an entry stored in the directory, not from the
\* shortform header
NextIsEntry == ~IsShortform(Top.node) \/ Len(Top.out) >= 2

\* the entry the next item is made from
NextEntry ==
    image.dir[Top.node.inum].entries[IF IsShortform(Top.node) THEN Len(Top.out) - 1
                                     ELSE Len(Top.out) + 1]

\* the inode number of the next item
NextItemInum ==
    IF NextIsEntry THEN NextEntry.inumber
    ELSE IF Len(Top.out) = 0 THEN Top.node.inum
    ELSE image.dir[Top.node.inum].parent

\* the file-type byte of the next item is one of FILETYPES
NextFtypeOk == NextIsEntry /\ image.has_ftype => NextEntry.ftype \in DOMAIN FILETYPES

\* the next item is yielded
NextYielded ==
    /\ stack' # <<>>
    /\ Top'.out = Append(Top.out, Top'.out[Len(Top.out) + 1])
    /\ Top'.out[Len(Top.out) + 1].inum = NextItemInum

\* the enumeration ends with Error and listdir stores nothing
NextAborts ==
    /\ stack' = <<>>
    /\ result' = Err("Error")
    /\ dirlist' = dirlist

\* C29 as stated: enumeration validates only the range of the inode number of what it
\* yields: every item whose inode number is inside the filesystem is yielded, whatever
\* the magic of its dinode.
C29_RangeOnly ==
    [][(HasNextItem /\ NextFtypeOk /\ NextItemInum \in DOMAIN image.dinode) => NextYielded]_vars

\* C29: for every entry stored in a directory, enumeration validates only the range
\* of the inode number: an entry whose dinode has a wrong magic is yielded unread and
\* fails with Error at its first metadata access, an entry whose inode number is
\* outside the filesystem ends the enumeration with Error at that entry, and listdir()
\* then returns nothing and memoizes nothing.  The "." and ".." of a shortform
\* directory are made with their dinodes read: a wrong magic there ends the
\* enumeration with Error as well.
C29_EntriesLazy ==
    /\ [][(HasNextItem /\ NextFtypeOk) =>
            IF NextItemInum \notin DOMAIN image.dinode THEN NextAborts
            ELSE IF ~NextIsEntry /\ ~MagicOk(NextItemInum) THEN NextAborts
            ELSE NextYielded]_vars
    /\ [](call.op = "inode" =>
            result = IF MagicOk(call.node.inum) THEN [dinode |-> image.dinode[call.node.inum]]
                     ELSE Err("Error"))
    /\ []((call.op = "listdir" /\ IsErr(result)) => call.node.inum \notin DOMAIN dirlist)

\* C29 witness: listdir() of the shortform root returned the entry a -> 3, whose dinode
\* has no magic, and the access to its dinode failed
C29_Witness ==
    /\ call.op = "inode"
    /\ call.node.inum = 3
    /\ call.node.filename = <<"a">>
    /\ call.node.parent # NoNode
    /\ ~MagicOk(3)
    /\ result = Err("Error")
    /\ 1 \in DOMAIN dirlist

(***************************************************************************)
(* link_inode on a symlink without a recorded parent.                      *)
(***************************************************************************)
\* targets of /l: relative, the bare "..", under "../", and absolute
ParentlessTargets ==
    { <<".", ".">>, <<".", ".", "/", "f">>, <<".", ".", "f">>, <<"d", "/", "g">>, <<"/", "f">> }

InitParentless ==
    /\ \E t4 \in ParentlessTargets, t5 \in Targets5 :
         image = MkImage(t4, t5, StoreLocal, 5, TRUE, 7)
    /\ call = NoCall
    /\ stack = <<>>
    /\ result = NoResult
    /\ link_inode_memo = <<>>
    /\ runlist = NoList
    /\ dirlist = <<>>
    /\ ag = <<>>

SpecParentless == InitParentless /\ [][Next]_vars

\* link_inode is entered on a symlink without parent whose target it has to resolve
ResolvesParentless ==
    /\ AtLink("call")
    /\ Top.self.parent = NoNode
    /\ Top.self \notin DOMAIN link_inode_memo
    /\ ~IsErr(Link(Top.self))

\* C30: for a symlink inode without a recorded parent, link_inode raises
\* SymlinkUnavailableException exactly when the target starts with "../"; every other
\* target, the bare ".." among them, is resolved by XFS.get from the filesystem root,
\* as an absolute target is (short of the interpreter's recursion limit).
C30_ParentlessFromRoot ==
    [][ResolvesParentless =>
          LET link == Link(Top.self).val
          IN IF StartsWith(link, <<".", ".", "/">>)
             THEN /\ stack' = <<>>
                  /\ result' = Err("SymlinkUnavailableException")
             ELSE IF Len(stack) + 1 > MaxDepth
             THEN /\ stack' = <<>>
                  /\ result' = Err("RecursionError")
             ELSE /\ Len(stack') = Len(stack) + 1
                  /\ Top'.op = "get"
                  /\ Top'.node = Root
                  /\ Top'.path = link
                  /\ Top'.parts = IF StartsWith(link, <<"/">>) THEN Split(link)
                                  ELSE Tail(Split(<<"/">> \o link))]_vars

\* C30 witness: link_inode of /l, got by number, whose target is the bare "..", has
\* returned the ".." of the root directory
C30_Witness ==
    /\ call.op = "link_inode"
    /\ call.node = INode(4, NoName, 0, NoNode)
    /\ Link(call.node) = [val |-> <<".", ".">>]
    /\ ~Running
    /\ IsNode(result)
    /\ result.inum = image.sb_rootino
    /\ result.filename = <<".", ".">>

====
